---- MODULE Spec2Model ----
(***************************************************************************)
(* A model of the SONAR / dSONAR byte <-> tone codec and of the reverse    *)
(* reconstruction pipeline (frequency table, metadata document, analysis   *)
(* report and audio container decoders, the orchestrator, the batch loops  *)
(* and the partition combiner).                                            *)
(*                                                                         *)
(* Numbers.  The C code computes in double.  Frequencies are modelled as   *)
(* exact rationals [n, d] (d > 0), confidences and amplitudes as integer   *)
(* thousandths, and ratios (average confidence, accuracy) as rationals.    *)
(* For the parameter values drawn here the double rounding error of the    *)
(* code is many orders of magnitude below the distance of any computed     *)
(* value to a rounding or comparison threshold, so the exact value and the *)
(* double value select the same branch and the same byte.                  *)
(***************************************************************************)
EXTENDS Integers, Sequences, FiniteSets, TLC

VARIABLES
    pc,              \* position of the running entry point
    sonar_config,    \* sonar_config_t of the encoder
    dsonar_config,   \* dsonar_config_t of the decoder
    audio_sample,    \* audio_sample_node_t built by create_audio_sample
    reverse_sample,  \* reverse_sample_node_t built by create_reverse_sample
    artifact,        \* content of the file handed to a decoder / the call's arguments
    samples,         \* sample list built by the session (ghost copy kept after free)
    result,          \* dsonar_result_t* returned by a decoder (NULL on failure)
    target,          \* mojibake_target_t of the orchestrator
    disk,            \* files on disk seen by the orchestrator and the combiner
    idx,             \* loop index of a batch loop
    success,         \* the batch loop's success flag
    call,            \* what the last per-partition call did
    attempted,       \* partition indices attempted by the batch loop, in order
    ret,             \* value returned by the entry point
    audio_lib,       \* audio_lib_t of mbx_sonar: the handle and the function pointers
    g_initialized,   \* g_initialized of the audio engine
    trace,           \* backend calls of the running mbx_sonar invocation, in order
    heap             \* malloc and free calls of the running session, in order

vars == <<pc, sonar_config, dsonar_config, audio_sample, reverse_sample, artifact,
          samples, result, target, disk, idx, success, call, attempted, ret,
          audio_lib, g_initialized, trace, heap>>

\* the playback backend
engine == <<audio_lib, g_initialized, trace>>

\* a null pointer, a file that cannot be opened, a variable not in use
NULL == [null |-> TRUE]
NoFile == [exists |-> FALSE]
None == [none |-> TRUE]

\* a text file of the given lines; a byte buffer holding the given bytes
TextFile(lines) == [exists |-> TRUE, lines |-> lines]
Buffer(bytes) == [bytes |-> bytes]

(***************************************************************************)
(* Exact rationals                                                         *)
(***************************************************************************)
Q(n, d) == [n |-> n, d |-> d]
QInt(k) == Q(k, 1)
QLt(a, b) == a.n * b.d < b.n * a.d
QLe(a, b) == a.n * b.d <= b.n * a.d
QEq(a, b) == a.n * b.d = b.n * a.d

\* C conversion of a non-negative real n/d to an integer type: truncation
Trunc(n, d) == n \div d

\* (unsigned char) of an int
ToUChar(x) == x % 256

\* (unsigned char) of a double that is not a number: the conversion is undefined, the
\* build may produce any value of the type
Indeterminate == -1
UCharValues(v) == IF v = Indeterminate THEN 0..255 ELSE {v}

Min(a, b) == IF a < b THEN a ELSE b

RECURSIVE SumSeq(_)
SumSeq(s) == IF s = <<>> THEN 0 ELSE Head(s) + SumSeq(Tail(s))

(***************************************************************************)
(* Frequency codec                                                         *)
(***************************************************************************)
ByteMax == 255

Bytes == 0..ByteMax

\* a mapping that runs down from the top of the band
map_byte_to_frequency_descending(byte, config) ==
    Q(config.base_frequency * ByteMax + (ByteMax - byte) * config.frequency_range, ByteMax)

\* frequency = base_frequency + ((double)byte / 255.0) * frequency_range
map_byte_to_frequency(byte, config) ==
    Q(config.base_frequency * ByteMax + byte * config.frequency_range, ByteMax)

\* amplitude = 0.1 + ((double)byte / 255.0) * 0.9
map_byte_to_amplitude(byte) == Q(ByteMax + 9 * byte, 10 * ByteMax)

create_audio_sample(byte, config) ==
    [source_byte |-> byte,
     frequency   |-> map_byte_to_frequency(byte, config),
     amplitude   |-> map_byte_to_amplitude(byte),
     duration    |-> config.sample_duration]

\* a decoder that scales by 256 steps instead of 255
frequency_to_byte_scale256(frequency, config) ==
    IF QLt(frequency, QInt(config.base_frequency)) THEN 0
    ELSE IF QLt(QInt(config.base_frequency + config.frequency_range), frequency) THEN ByteMax
    ELSE ToUChar(Trunc((frequency.n - config.base_frequency * frequency.d) * 2 * (ByteMax + 1)
                          + config.frequency_range * frequency.d,
                       2 * config.frequency_range * frequency.d))

\* a decoder without the two range checks
frequency_to_byte_noclamp(frequency, config) ==
    LET num == (frequency.n - config.base_frequency * frequency.d) * 2 * ByteMax
                  + config.frequency_range * frequency.d
        den == 2 * config.frequency_range * frequency.d
    IN  ToUChar(IF num < 0 THEN -((-num) \div den) ELSE num \div den)

\* if (frequency < base) return 0; if (frequency > base + range) return 255;
\* normalized = (frequency - base) / range; return (unsigned char)(normalized * 255.0 + 0.5)
\* (with frequency_range = 0 and frequency = base the quotient is 0.0 / 0.0, not a number)
frequency_to_byte(frequency, config) ==
    IF QLt(frequency, QInt(config.base_frequency)) THEN 0
    ELSE IF QLt(QInt(config.base_frequency + config.frequency_range), frequency) THEN ByteMax
    ELSE IF config.frequency_range = 0 THEN Indeterminate
    ELSE ToUChar(Trunc((frequency.n - config.base_frequency * frequency.d) * 2 * ByteMax
                          + config.frequency_range * frequency.d,
                       2 * config.frequency_range * frequency.d))

DefaultConfidence == 500

create_reverse_sample(frequency, index, config) ==
    [source_frequency   |-> frequency,
     sample_index       |-> index,
     reconstructed_byte |-> frequency_to_byte(frequency, config),
     confidence_score   |-> DefaultConfidence]

\* the samples a call of create_reverse_sample may return
reverse_sample_outcomes(sample) ==
    {[sample EXCEPT !.reconstructed_byte = b] : b \in UCharValues(sample.reconstructed_byte)}

\* the list is walked to its last node and the sample linked there
add_reverse_sample(head, sample) == Append(head, sample)

\* (a NULL head returns NULL and leaves *length unwritten)
samples_to_bytes(head) ==
    IF head = <<>> THEN [bytes |-> NULL, length |-> "unset"]
    ELSE [bytes  |-> Buffer([i \in 1..Len(head) |-> head[i].reconstructed_byte]),
          length |-> Len(head)]

(***************************************************************************)
(* Frequency table decoder                                                 *)
(*                                                                         *)
(* A table file is a sequence of text lines.  A line is described by what  *)
(* sscanf("%d,%7[^,],%d,%lf,%lf,%lf") converts from it: the number of      *)
(* converted fields and the values of the byte_dec, frequency and          *)
(* amplitude fields (the other three fields are converted and not used).   *)
(***************************************************************************)
CsvFieldCount == 6

Zero == Q(0, 1)

\* a table decoder that inverse-maps the frequency field, as parse_csv_frequency_data does
RECURSIVE csv_read_rows_by_frequency(_, _, _, _, _)
csv_read_rows_by_frequency(file, config, k, sample_count, acc) ==
    IF k > Len(file) \/ ~(Len(acc.bytes) < sample_count) THEN acc
    ELSE IF file[k].parsed = CsvFieldCount
         THEN csv_read_rows_by_frequency(file, config, k + 1, sample_count,
                  [bytes              |-> Append(acc.bytes,
                                             frequency_to_byte(file[k].frequency, config)),
                   total_confidence   |-> acc.total_confidence + file[k].amplitude,
                   successful_samples |-> acc.successful_samples + 1])
         ELSE csv_read_rows_by_frequency(file, config, k + 1, sample_count, acc)

\* a table decoder that gives up at the first row that does not parse
RECURSIVE csv_read_rows_stop_at_malformed(_, _, _, _, _)
csv_read_rows_stop_at_malformed(file, config, k, sample_count, acc) ==
    IF k > Len(file) \/ ~(Len(acc.bytes) < sample_count) THEN acc
    ELSE IF file[k].parsed = CsvFieldCount
         THEN csv_read_rows_stop_at_malformed(file, config, k + 1, sample_count,
                  [bytes              |-> Append(acc.bytes, ToUChar(file[k].byte_dec)),
                   total_confidence   |-> acc.total_confidence + file[k].amplitude,
                   successful_samples |-> acc.successful_samples + 1])
         ELSE acc

\* the second loop of reconstruct_from_csv, at line k of the file
RECURSIVE csv_read_rows(_, _, _, _, _)
csv_read_rows(file, config, k, sample_count, acc) ==
    IF k > Len(file) \/ ~(Len(acc.bytes) < sample_count) THEN acc
    ELSE IF file[k].parsed = CsvFieldCount
         THEN csv_read_rows(file, config, k + 1, sample_count,
                  [bytes              |-> Append(acc.bytes, ToUChar(file[k].byte_dec)),
                   total_confidence   |-> acc.total_confidence + file[k].amplitude,
                   successful_samples |-> acc.successful_samples + 1])
         ELSE csv_read_rows(file, config, k + 1, sample_count, acc)

\* a table decoder that averages over the counted lines instead of the parsed rows
reconstruct_from_csv_mean_over_lines(file, config) ==
    IF file = NoFile THEN NULL
    ELSE IF Len(file.lines) = 0 THEN NULL
    ELSE LET sample_count == Len(file.lines) - 1
         IN  IF sample_count = 0 THEN NULL
             ELSE LET r == csv_read_rows(file.lines, config, 2, sample_count,
                               [bytes |-> <<>>, total_confidence |-> 0,
                                successful_samples |-> 0])
                  IN  [reconstructed_data |-> Buffer(r.bytes),
                       data_length        |-> Len(r.bytes),
                       total_samples      |-> sample_count,
                       successful_samples |-> r.successful_samples,
                       average_confidence |-> Q(r.total_confidence, sample_count)]

\* a table decoder that reports the rows it parsed as the total
reconstruct_from_csv_total_of_parsed(file, config) ==
    IF file = NoFile THEN NULL
    ELSE IF Len(file.lines) = 0 THEN NULL
    ELSE LET sample_count == Len(file.lines) - 1
         IN  IF sample_count = 0 THEN NULL
             ELSE LET r == csv_read_rows(file.lines, config, 2, sample_count,
                               [bytes |-> <<>>, total_confidence |-> 0,
                                successful_samples |-> 0])
                  IN  [reconstructed_data |-> Buffer(r.bytes),
                       data_length        |-> Len(r.bytes),
                       total_samples      |-> r.successful_samples,
                       successful_samples |-> r.successful_samples,
                       average_confidence |->
                           IF r.successful_samples > 0
                           THEN Q(r.total_confidence, r.successful_samples)
                           ELSE Zero]

reconstruct_from_csv(file, config) ==
    IF file = NoFile THEN NULL                 \* fopen failed
    ELSE IF Len(file.lines) = 0 THEN NULL      \* the header line cannot be read
    ELSE LET sample_count == Len(file.lines) - 1   \* lines after the header
         IN  IF sample_count = 0 THEN NULL
             ELSE LET r == csv_read_rows(file.lines, config, 2, sample_count,
                               [bytes |-> <<>>, total_confidence |-> 0,
                                successful_samples |-> 0])
                  IN  [reconstructed_data |-> Buffer(r.bytes),
                       data_length        |-> Len(r.bytes),
                       total_samples      |-> sample_count,
                       successful_samples |-> r.successful_samples,
                       average_confidence |->
                           IF r.successful_samples > 0
                           THEN Q(r.total_confidence, r.successful_samples)
                           ELSE Zero]

\* a decoder that uses up the table: the rows it has read are gone afterwards
reconstruct_from_csv_after_consuming(file, config) ==
    [file |-> IF file = NoFile THEN NoFile
              ELSE TextFile(SubSeq(file.lines, 1, Min(1, Len(file.lines)))),
     config |-> config]

\* what a call of reconstruct_from_csv leaves of its two arguments: the file is opened
\* with "r" and closed, *config is only read, and the function has no static variable
reconstruct_from_csv_after(file, config) == [file |-> file, config |-> config]

(***************************************************************************)
(* Statistics of a reverse sample list (reconstruct_from_json and          *)
(* reconstruct_from_analysis share the loop, with their own threshold)     *)
(***************************************************************************)
JsonThreshold == 500
AnalysisThreshold == 600

CountAbove(list, threshold) ==
    Cardinality({i \in 1..Len(list) : list[i].confidence_score > threshold})

result_from_samples(list, threshold) ==
    LET b == samples_to_bytes(list)
    IN  [reconstructed_data |-> b.bytes,
         data_length        |-> b.length,
         total_samples      |-> Len(list),
         successful_samples |-> CountAbove(list, threshold),
         average_confidence |->
             IF Len(list) > 0
             THEN Q(SumSeq([i \in 1..Len(list) |-> list[i].confidence_score]), Len(list))
             ELSE Zero]

(***************************************************************************)
(* Metadata document decoder                                               *)
(*                                                                         *)
(* A document is a sequence of lines with their lengths in characters      *)
(* (newline included).  kind = "frequency": the line converts under        *)
(* sscanf(" \"frequency\": %lf,") to val; kind = "byte": the line holds    *)
(* the byte tag after `indent` blanks and converts under                   *)
(* sscanf(" \"byte\": \"0x%X\",") to val; kind = "other": neither.         *)
(***************************************************************************)
JsonSeekBack == 200
JsonLookAhead == 100
PerfectMatch == 1000
GoodMatch == 800

RECURSIVE LineStart(_, _)
LineStart(file, k) == IF k = 1 THEN 0 ELSE LineStart(file, k - 1) + file[k - 1].len

LineEnd(file, k) == LineStart(file, k) + file[k].len

FileSize(file) == IF Len(file) = 0 THEN 0 ELSE LineEnd(file, Len(file))

\* the line a file offset lies in (offset < FileSize)
LineAt(file, offset) ==
    CHOOSE k \in 1..Len(file) : LineStart(file, k) <= offset /\ offset < LineEnd(file, k)

\* the inner loop of parse_json_metadata: fgets from `offset` on while the line read ends
\* at or before pos + 100; stops at the first line whose byte tag converts
RECURSIVE json_find_byte(_, _, _)
json_find_byte(file, offset, pos) ==
    IF offset >= FileSize(file) THEN [found |-> FALSE, byte_val |-> 0]
    ELSE LET k == LineAt(file, offset)
             skipped == offset - LineStart(file, k)   \* characters of the line before offset
         IN  IF LineEnd(file, k) > pos + JsonLookAhead THEN [found |-> FALSE, byte_val |-> 0]
             ELSE IF file[k].kind = "byte" /\ skipped <= file[k].indent
                  THEN [found |-> TRUE, byte_val |-> file[k].val]
                  ELSE json_find_byte(file, LineEnd(file, k), pos)

\* fseek(file, pos - 200, SEEK_SET): a negative offset is refused and the position stays
json_search_start(pos) == IF pos - JsonSeekBack < 0 THEN pos ELSE pos - JsonSeekBack

\* if (byte_val > 0 && reconstructed == (unsigned char)byte_val) 1.0 else 0.8
json_confidence(tag, reconstructed) ==
    IF tag.byte_val > 0 /\ reconstructed = ToUChar(tag.byte_val) THEN PerfectMatch ELSE GoodMatch

\* the outer loop of parse_json_metadata at line k; acc.tags is the record of what each
\* search found (not program state)
RECURSIVE json_lines(_, _, _, _)
json_lines(file, config, k, acc) ==
    IF k > Len(file) THEN acc
    ELSE IF file[k].kind = "frequency"
         THEN LET pos == LineEnd(file, k)
                  tag == json_find_byte(file, json_search_start(pos), pos)
                  sample == create_reverse_sample(file[k].val, Len(acc.samples), config)
                  scored == [sample EXCEPT !.confidence_score =
                                json_confidence(tag, frequency_to_byte(file[k].val, config))]
              IN  json_lines(file, config, k + 1,
                      [samples |-> add_reverse_sample(acc.samples, scored),
                       tags    |-> Append(acc.tags, tag)])
         ELSE json_lines(file, config, k + 1, acc)

parse_json_metadata(file, config) ==
    IF file = NoFile THEN [ok |-> FALSE, samples |-> <<>>, tags |-> <<>>]
    ELSE LET r == json_lines(file.lines, config, 1, [samples |-> <<>>, tags |-> <<>>])
         IN  [ok |-> Len(r.samples) > 0, samples |-> r.samples, tags |-> r.tags]

reconstruct_from_json(file, config) ==
    IF file = NoFile THEN NULL
    ELSE LET p == parse_json_metadata(file, config)
         IN  IF ~p.ok THEN NULL ELSE result_from_samples(p.samples, JsonThreshold)

(***************************************************************************)
(* Analysis report decoder                                                 *)
(*                                                                         *)
(* A report is a sequence of lines.  kind = "marker": the line contains    *)
(* "Detailed Sample Data"; kind = "data": sscanf("0x%X\t%lf\t\t%lf\t%lf")  *)
(* converts four fields, the second being val; kind = "other": neither.    *)
(* len is strlen of the line.                                              *)
(***************************************************************************)
AnalysisMinLen == 10
AnalysisConfidence == 850
AnalysisSkip == 2

\* a report parser that takes the byte from the line's hex field
RECURSIVE analysis_lines_hex_byte(_, _, _, _)
analysis_lines_hex_byte(file, config, k, acc) ==
    IF k > Len(file) THEN acc
    ELSE IF file[k].kind = "marker"
         THEN analysis_lines_hex_byte(file, config, k + 1 + AnalysisSkip,
                                      [acc EXCEPT !.in_data_section = TRUE])
         ELSE IF acc.in_data_section /\ file[k].len > AnalysisMinLen /\ file[k].kind = "data"
              THEN LET sample == create_reverse_sample(file[k].val, Len(acc.samples), config)
                       scored == [sample EXCEPT !.confidence_score = AnalysisConfidence,
                                                !.reconstructed_byte =
                                                    ToUChar(file[k].byte_val)]
                   IN  analysis_lines_hex_byte(file, config, k + 1,
                           [acc EXCEPT !.samples = add_reverse_sample(acc.samples, scored),
                                       !.lines = Append(acc.lines, k)])
              ELSE analysis_lines_hex_byte(file, config, k + 1, acc)

\* the loop of parse_analysis_report at line k
RECURSIVE analysis_lines(_, _, _, _)
analysis_lines(file, config, k, acc) ==
    IF k > Len(file) THEN acc
    ELSE IF file[k].kind = "marker"
         THEN \* the next two lines are read and dropped
              analysis_lines(file, config, k + 1 + AnalysisSkip,
                             [acc EXCEPT !.in_data_section = TRUE])
         ELSE IF acc.in_data_section /\ file[k].len > AnalysisMinLen /\ file[k].kind = "data"
              THEN LET sample == create_reverse_sample(file[k].val, Len(acc.samples), config)
                       scored == [sample EXCEPT !.confidence_score = AnalysisConfidence]
                   IN  analysis_lines(file, config, k + 1,
                           [acc EXCEPT !.samples = add_reverse_sample(acc.samples, scored),
                                       !.lines = Append(acc.lines, k)])
              ELSE analysis_lines(file, config, k + 1, acc)

parse_analysis_report(file, config) ==
    IF file = NoFile THEN [ok |-> FALSE, samples |-> <<>>, lines |-> <<>>]
    ELSE LET r == analysis_lines(file.lines, config, 1,
                      [in_data_section |-> FALSE, samples |-> <<>>, lines |-> <<>>])
         IN  [ok |-> Len(r.samples) > 0, samples |-> r.samples, lines |-> r.lines]

reconstruct_from_analysis(file, config) ==
    LET p == parse_analysis_report(file, config)
    IN  IF ~p.ok THEN NULL ELSE result_from_samples(p.samples, AnalysisThreshold)

(***************************************************************************)
(* Audio container reader and acoustic decoder                             *)
(*                                                                         *)
(* A container file is [size, riff, wave, channels, sample_rate,           *)
(* bits_per_sample, pcm]: the number of bytes in the file, whether bytes   *)
(* 0..3 are "RIFF" and bytes 8..11 are "WAVE", the values at offsets 22,   *)
(* 24 and 34, and the 16-bit samples that follow byte 44.                  *)
(***************************************************************************)
WavHeaderSize == 44
MinBufferSize == 10
BandLow == 200
BandHigh == 3000
WavConfidence == 700

\* the n bytes of v as fwrite(&v, n, 1, f) stores them (least significant first)
RECURSIVE LittleEndian(_, _)
LittleEndian(v, n) ==
    IF n = 0 THEN <<>> ELSE <<v % 256>> \o LittleEndian(v \div 256, n - 1)

Tag(ok, text) == IF ok THEN text ELSE <<88, 88, 88, 88>>
RiffTag == <<82, 73, 70, 70>>
WaveTag == <<87, 65, 86, 69>>

\* the first bytes of a container file: the header generate_wav writes for the file's
\* tags and format, cut at the size of the file; of a file a writer of this model left,
\* the bytes it wrote
wav_header_bytes(file) ==
    IF "header" \in DOMAIN file
    THEN SubSeq(file.header, 1, Min(WavHeaderSize, Len(file.header)))
    ELSE
    LET data_size == 2 * Len(file.pcm)
        all == Tag(file.riff, RiffTag) \o LittleEndian(data_size + 36, 4)
               \o Tag(file.wave, WaveTag)
               \o <<102, 109, 116, 32>> \o LittleEndian(16, 4) \o LittleEndian(1, 2)
               \o LittleEndian(file.channels, 2) \o LittleEndian(file.sample_rate, 4)
               \o LittleEndian(file.sample_rate * file.channels * 2, 4)
               \o LittleEndian(file.channels * 2, 2)
               \o LittleEndian(file.bits_per_sample, 2)
               \o <<100, 97, 116, 97>> \o LittleEndian(data_size, 4)
    IN  SubSeq(all, 1, Min(file.size, Len(all)))

ChannelsOffset == 22
SampleRateOffset == 24
BitsOffset == 34

\* *(short*)(header + offset) and *(int*)(header + offset)
ShortAt(header, offset) ==
    LET v == header[offset + 1] + 256 * header[offset + 2]
    IN  IF v >= 32768 THEN v - 65536 ELSE v

IntAt(header, offset) ==
    LET hi == ShortAt(header, offset + 2)
    IN  header[offset + 1] + 256 * header[offset + 2] + 65536 * hi

\* a reader that takes the sample rate from the byte-rate field
read_wav_header_rate_from_byte_rate(file) ==
    LET header == wav_header_bytes(file)
    IN  IF Len(header) # WavHeaderSize THEN [ok |-> FALSE]
        ELSE IF SubSeq(header, 1, 4) # RiffTag THEN [ok |-> FALSE]
        ELSE IF SubSeq(header, 9, 12) # WaveTag THEN [ok |-> FALSE]
        ELSE [ok |-> TRUE, channels |-> ShortAt(header, ChannelsOffset),
              sample_rate |-> IntAt(header, SampleRateOffset + 4),
              bits_per_sample |-> ShortAt(header, BitsOffset)]

read_wav_header(file) ==
    LET header == wav_header_bytes(file)
    IN  IF Len(header) # WavHeaderSize THEN [ok |-> FALSE]   \* fread(header, 1, 44) != 44
        ELSE IF SubSeq(header, 1, 4) # RiffTag THEN [ok |-> FALSE]
        ELSE IF SubSeq(header, 9, 12) # WaveTag THEN [ok |-> FALSE]
        ELSE [ok |-> TRUE, channels |-> ShortAt(header, ChannelsOffset),
              sample_rate |-> IntAt(header, SampleRateOffset),
              bits_per_sample |-> ShortAt(header, BitsOffset)]

ZeroCrossings(buffer) ==
    Cardinality({i \in 2..Len(buffer) :
                    \/ (buffer[i - 1] >= 0 /\ buffer[i] < 0)
                    \/ (buffer[i - 1] < 0 /\ buffer[i] >= 0)})

\* an estimator that counts a whole period for each crossing
detect_dominant_frequency_per_crossing(audio_buffer, buffer_size, sample_rate) ==
    IF buffer_size < MinBufferSize THEN Zero
    ELSE LET zero_crossings == ZeroCrossings(audio_buffer)
             frequency == Q(zero_crossings * sample_rate, buffer_size)
         IN  IF zero_crossings > 0
                /\ QLe(QInt(BandLow), frequency) /\ QLe(frequency, QInt(BandHigh))
             THEN frequency
             ELSE Zero

\* an estimator without the band filter
detect_dominant_frequency_unfiltered(audio_buffer, buffer_size, sample_rate) ==
    IF buffer_size < MinBufferSize THEN Zero
    ELSE LET zero_crossings == ZeroCrossings(audio_buffer)
         IN  IF zero_crossings > 0 THEN Q(zero_crossings * sample_rate, 2 * buffer_size)
             ELSE Zero

\* 0.0 is returned for "no frequency"
detect_dominant_frequency(audio_buffer, buffer_size, sample_rate) ==
    IF buffer_size < MinBufferSize THEN Zero
    ELSE LET zero_crossings == ZeroCrossings(audio_buffer)
             \* (zero_crossings / 2.0) / ((double)buffer_size / sample_rate)
             frequency == Q(zero_crossings * sample_rate, 2 * buffer_size)
         IN  IF zero_crossings > 0
                /\ QLe(QInt(BandLow), frequency) /\ QLe(frequency, QInt(BandHigh))
             THEN frequency
             ELSE Zero

\* chunk_size = (int)(config->base_frequency * 0.05)
wav_chunk_size(config) == Trunc(config.base_frequency * 5, 100)

\* the read loop of reconstruct_from_wav: whole chunks only
RECURSIVE wav_chunks(_, _, _, _, _)
wav_chunks(pcm, chunk_size, sample_rate, config, list) ==
    IF Len(pcm) < chunk_size THEN list
    ELSE LET audio_buffer == SubSeq(pcm, 1, chunk_size)
             rest == SubSeq(pcm, chunk_size + 1, Len(pcm))
             estimated_frequency ==
                 detect_dominant_frequency(audio_buffer, chunk_size, sample_rate)
         IN  IF QLt(Zero, estimated_frequency)
             THEN LET sample == create_reverse_sample(estimated_frequency, Len(list), config)
                      scored == [sample EXCEPT !.confidence_score = WavConfidence]
                  IN  wav_chunks(rest, chunk_size, sample_rate, config,
                                 add_reverse_sample(list, scored))
             ELSE wav_chunks(rest, chunk_size, sample_rate, config, list)

\* (chunk_size > 0 here)
wav_samples(file, config) ==
    IF file = NoFile THEN <<>>
    ELSE LET h == read_wav_header(file)
         IN  IF ~h.ok THEN <<>>
             ELSE wav_chunks(file.pcm, wav_chunk_size(config), h.sample_rate, config, <<>>)

reconstruct_from_wav(file, config) ==
    LET list == wav_samples(file, config)
        sample_index == Len(list)
    IN  IF sample_index = 0 THEN NULL
        ELSE LET b == samples_to_bytes(list)
             IN  [reconstructed_data |-> b.bytes,
                  data_length        |-> b.length,
                  total_samples      |-> sample_index,
                  successful_samples |-> sample_index,
                  average_confidence |-> Q(WavConfidence, 1)]

(***************************************************************************)
(* Memory of a session: heap is the sequence of its malloc and free calls. *)
(* Allocation is taken to succeed.                                         *)
(***************************************************************************)
Malloc(block) == [op |-> "malloc", block |-> block]
Free(block) == [op |-> "free", block |-> block]
Block(kind, n) == [kind |-> kind, n |-> n]

\* one malloc per node created, in list order
NodeMallocs(kind, n) == [i \in 1..n |-> Malloc(Block(kind, i))]

\* free_audio_list / free_reverse_samples: every node of the list, from the head
NodeFrees(kind, n) == [i \in 1..n |-> Free(Block(kind, i))]

free_audio_list(head) == NodeFrees("audio_sample_node", Len(head))

free_reverse_samples(head) == NodeFrees("reverse_sample_node", Len(head))

ResultBlock == Block("dsonar_result_t", 1)
DataBlock == Block("reconstructed_data", 1)
AudioBuffer == Block("audio_buffer", 1)

\* reconstruct_from_csv: the result and its buffer, once lines follow the header
reconstruct_from_csv_heap(file, config) ==
    IF file = NoFile THEN <<>>
    ELSE IF Len(file.lines) <= 1 THEN <<>>
    ELSE <<Malloc(ResultBlock), Malloc(DataBlock)>>

\* samples_to_bytes(head, &length): one buffer when the list is not empty
samples_to_bytes_heap(head) == IF Len(head) = 0 THEN <<>> ELSE <<Malloc(DataBlock)>>

\* reconstruct_from_json / reconstruct_from_analysis after the parser returned:
\* nothing more when it failed, else the result, its buffer, and the list freed
list_decoder_heap(ok, list) ==
    NodeMallocs("reverse_sample_node", Len(list))
        \o (IF ~ok THEN <<>>
            ELSE <<Malloc(ResultBlock)>> \o samples_to_bytes_heap(list)
                    \o free_reverse_samples(list))

reconstruct_from_json_heap(file, config) ==
    IF file = NoFile THEN <<>>
    ELSE LET p == parse_json_metadata(file, config)
         IN  list_decoder_heap(p.ok, p.samples)

reconstruct_from_analysis_heap(file, config) ==
    LET p == parse_analysis_report(file, config)
    IN  list_decoder_heap(p.ok, p.samples)

\* a decoder that frees the window buffer again on the no-frequency exit
reconstruct_from_wav_heap_free_twice(file, config) ==
    IF file = NoFile THEN <<>>
    ELSE IF ~read_wav_header(file).ok THEN <<>>
    ELSE LET list == wav_samples(file, config)
         IN  <<Malloc(AudioBuffer)>> \o NodeMallocs("reverse_sample_node", Len(list))
                \o <<Free(AudioBuffer)>>
                \o (IF Len(list) = 0 THEN <<Free(AudioBuffer)>>
                    ELSE <<Malloc(ResultBlock)>> \o samples_to_bytes_heap(list)
                            \o free_reverse_samples(list))

\* reconstruct_from_wav: the window buffer, a node per detected frequency, the buffer
\* freed after the read loop, then the result, its buffer, and the list freed
reconstruct_from_wav_heap(file, config) ==
    IF file = NoFile THEN <<>>
    ELSE IF ~read_wav_header(file).ok THEN <<>>
    ELSE LET list == wav_samples(file, config)
         IN  <<Malloc(AudioBuffer)>> \o NodeMallocs("reverse_sample_node", Len(list))
                \o <<Free(AudioBuffer)>>
                \o (IF Len(list) = 0 THEN <<>>
                    ELSE <<Malloc(ResultBlock)>> \o samples_to_bytes_heap(list)
                            \o free_reverse_samples(list))

\* free_dsonar_result(result)
free_dsonar_result(res) ==
    IF res = NULL THEN <<>>
    ELSE (IF res.reconstructed_data # NULL THEN <<Free(DataBlock)>> ELSE <<>>)
            \o <<Free(ResultBlock)>>

reconstruct_from_heap(kind, files, config) ==
    CASE kind = "csv" -> reconstruct_from_csv_heap(files.csv, config)
      [] kind = "json" -> reconstruct_from_json_heap(files.json, config)
      [] kind = "wav" -> reconstruct_from_wav_heap(files.wav, config)
      [] kind = "analysis" -> reconstruct_from_analysis_heap(files.analysis, config)

(***************************************************************************)
(* Reconstruction orchestrator                                             *)
(*                                                                         *)
(* files = [csv, json, wav, analysis]: the four artifacts of one partition *)
(* (NoFile when fopen fails).  io is what the file system does when the    *)
(* output is written: "ok", "noopen" (fopen fails) or "short" (fwrite      *)
(* stores one byte less than asked).                                       *)
(***************************************************************************)
\* a loop that starts comparing at the second byte
RECURSIVE count_matches_from_second(_, _, _, _)
count_matches_from_second(original, reconstructed, i, length) ==
    IF i >= length THEN 0
    ELSE (IF i > 0 /\ original[i + 1] = reconstructed[i + 1] THEN 1 ELSE 0)
            + count_matches_from_second(original, reconstructed, i + 1, length)

\* for (i = 0; i < length; i++) if (original[i] == reconstructed[i]) matches++
\* (C index i is position i + 1 of the sequence)
RECURSIVE count_matches(_, _, _, _)
count_matches(original, reconstructed, i, length) ==
    IF i >= length THEN 0
    ELSE (IF original[i + 1] = reconstructed[i + 1] THEN 1 ELSE 0)
            + count_matches(original, reconstructed, i + 1, length)

calculate_reconstruction_accuracy(original, reconstructed, length) ==
    IF original = NULL \/ reconstructed = NULL \/ length <= 0 THEN Zero
    ELSE Q(count_matches(original.bytes, reconstructed.bytes, 0, length), length)

\* the new content of the output file and the value returned
save_reconstructed_data(old_file, res, io) ==
    IF res = NULL THEN [ok |-> FALSE, file |-> old_file]
    ELSE IF res.reconstructed_data = NULL THEN [ok |-> FALSE, file |-> old_file]
    ELSE IF io = "noopen" THEN [ok |-> FALSE, file |-> old_file]
    ELSE LET data == SubSeq(res.reconstructed_data.bytes, 1, res.data_length)
             written == IF io = "short" /\ res.data_length > 0
                        THEN res.data_length - 1 ELSE res.data_length
         IN  [ok |-> written = res.data_length,
              file |-> [exists |-> TRUE, bytes |-> SubSeq(data, 1, written)]]

\* an existence chain that looks for the analysis report before the audio container
select_artifact_report_before_wav(files) ==
    IF files.csv # NoFile THEN "csv"
    ELSE IF files.json # NoFile THEN "json"
    ELSE IF files.analysis # NoFile THEN "analysis"
    ELSE IF files.wav # NoFile THEN "wav"
    ELSE "none"

\* an existence chain that ends in the report decoder without looking for the report
select_artifact_report_unconditional(files) ==
    IF files.csv # NoFile THEN "csv"
    ELSE IF files.json # NoFile THEN "json"
    ELSE IF files.wav # NoFile THEN "wav"
    ELSE "analysis"

\* the fopen chain of mbx_dsonar: the first artifact that can be opened
select_artifact(files) ==
    IF files.csv # NoFile THEN "csv"
    ELSE IF files.json # NoFile THEN "json"
    ELSE IF files.wav # NoFile THEN "wav"
    ELSE IF files.analysis # NoFile THEN "analysis"
    ELSE "none"

reconstruct_from(kind, files, config) ==
    CASE kind = "csv" -> reconstruct_from_csv(files.csv, config)
      [] kind = "json" -> reconstruct_from_json(files.json, config)
      [] kind = "wav" -> reconstruct_from_wav(files.wav, config)
      [] kind = "analysis" -> reconstruct_from_analysis(files.analysis, config)

\* the bytes of partition index of the target's block
MOJIBAKE_BLOCK_OFFSET(tgt, index) ==
    Buffer(SubSeq(tgt.block.bytes, index * tgt.partition_size + 1,
                  (index + 1) * tgt.partition_size))

\* one call of mbx_dsonar: ran lists the decoders run, file is the output file afterwards
mbx_dsonar(tgt, index, config, files, old_file, io) ==
    LET kind == select_artifact(files)
        none == [ret |-> FALSE, ran |-> <<>>, result |-> NULL, saved |-> FALSE,
                 file |-> old_file, accuracy |-> None, heap |-> <<>>]
        \* from "if (!result)" on: res is the decoder's result, mem its allocations
        After(res, mem) ==
            IF res = NULL THEN [none EXCEPT !.ran = <<kind>>, !.heap = mem]
            ELSE LET sv == save_reconstructed_data(old_file, res, io)
                 IN  [ret |-> TRUE, ran |-> <<kind>>, result |-> res, saved |-> sv.ok,
                      file |-> sv.file, heap |-> mem \o free_dsonar_result(res),
                      accuracy |->
                          IF sv.ok /\ tgt.block # NULL /\ index < tgt.partition_count
                          THEN calculate_reconstruction_accuracy(
                                   MOJIBAKE_BLOCK_OFFSET(tgt, index),
                                   res.reconstructed_data,
                                   Min(tgt.partition_size, res.data_length))
                          ELSE None]
    IN  IF kind = "none" THEN none
        ELSE After(reconstruct_from(kind, files, config),
                   reconstruct_from_heap(kind, files, config))

\* the config local to process_single_wav_file and process_wav_files_only
wav_only_config == [base_frequency |-> 220, frequency_range |-> 2000]

\* one iteration of the loop of process_wav_files_only
wav_only_iteration(files, old_file, io) ==
    LET config == wav_only_config
        none == [ret |-> FALSE, ran |-> <<>>, result |-> NULL, saved |-> FALSE,
                 file |-> old_file, accuracy |-> None, heap |-> <<>>]
        \* from the save on: res is the result in hand, mem the allocations so far
        After(res, ran, mem) ==
            IF res = NULL THEN [none EXCEPT !.ran = ran, !.heap = mem]
            ELSE LET sv == save_reconstructed_data(old_file, res, io)
                 IN  [ret |-> sv.ok, ran |-> ran, result |-> res, saved |-> sv.ok,
                      file |-> sv.file, accuracy |-> None,
                      heap |-> mem \o free_dsonar_result(res)]
        \* "if (!result)": the fallback to the container
        Fallback(from_csv, ran_csv, mem_csv) ==
            IF from_csv # NULL THEN After(from_csv, ran_csv, mem_csv)
            ELSE After(reconstruct_from_wav(files.wav, config), ran_csv \o <<"wav">>,
                       mem_csv \o reconstruct_from_wav_heap(files.wav, config))
    IN  IF files.wav = NoFile THEN none
        ELSE IF files.csv # NoFile
        THEN Fallback(reconstruct_from_csv(files.csv, config), <<"csv">>,
                      reconstruct_from_csv_heap(files.csv, config))
        ELSE Fallback(NULL, <<>>, <<>>)

\* process_single_wav_file on one container; file is its output file afterwards
process_single_wav_file(wav, old_file, io) ==
    LET none == [ret |-> FALSE, ran |-> <<>>, result |-> NULL, saved |-> FALSE,
                 file |-> old_file, accuracy |-> None, heap |-> <<>>]
        After(res, mem) ==
            IF res = NULL THEN [none EXCEPT !.ran = <<"wav">>, !.heap = mem]
            ELSE LET sv == save_reconstructed_data(old_file, res, io)
                 IN  [ret |-> sv.ok, ran |-> <<"wav">>, result |-> res,
                      saved |-> sv.ok, file |-> sv.file, accuracy |-> None,
                      heap |-> mem \o free_dsonar_result(res)]
    IN  IF wav = NoFile THEN none
        ELSE After(reconstruct_from_wav(wav, wav_only_config),
                   reconstruct_from_wav_heap(wav, wav_only_config))

(***************************************************************************)
(* Partition combiner                                                      *)
(***************************************************************************)
CombineBufferSize == 4096

\* while ((bytes_read = fread(buffer, 1, sizeof(buffer), partition_file)) > 0) fwrite(...)
RECURSIVE copy_blocks(_, _)
copy_blocks(data, out) ==
    IF Len(data) = 0 THEN out
    ELSE LET bytes_read == Min(CombineBufferSize, Len(data))
         IN  copy_blocks(SubSeq(data, bytes_read + 1, Len(data)),
                         out \o SubSeq(data, 1, bytes_read))

\* a combiner that stops at the first partition file it cannot open
RECURSIVE combine_loop_stop_at_missing(_, _, _, _)
combine_loop_stop_at_missing(bins, i, partition_count, out) ==
    IF i >= partition_count THEN out
    ELSE IF bins[i] = NoFile THEN out
    ELSE combine_loop_stop_at_missing(bins, i + 1, partition_count,
                                      copy_blocks(bins[i].bytes, out))

\* the for loop of combine_partition_files at partition i
RECURSIVE combine_loop(_, _, _, _)
combine_loop(bins, i, partition_count, out) ==
    IF i >= partition_count THEN out
    ELSE IF bins[i] = NoFile THEN combine_loop(bins, i + 1, partition_count, out)
    ELSE combine_loop(bins, i + 1, partition_count, copy_blocks(bins[i].bytes, out))

\* opens: whether the combined output can be created; old_file: what was there before
combine_partition_files(bins, partition_count, old_file, opens) ==
    IF ~opens THEN [ok |-> FALSE, file |-> old_file]
    ELSE LET out == combine_loop(bins, 0, partition_count, <<>>)
         IN  [ok |-> Len(out) > 0, file |-> [exists |-> TRUE, bytes |-> out]]

\* a success flag that keeps only the last partition's outcome
fold_success_last_only(flag, ok) == ok

\* if (!ok) success = false
fold_success(flag, ok) == flag /\ ok

(***************************************************************************)
(* Parameter values                                                        *)
(***************************************************************************)
\* default_config / default_dsonar_config, and other settings
EncodeConfigs ==
    { [sample_rate |-> 44100, base_frequency |-> b, frequency_range |-> r,
       sample_duration |-> 50] : b \in {0, 220, 1000}, r \in {1, 255, 2000} }

DecodeConfigs ==
    { [base_frequency |-> b, frequency_range |-> r] :
          b \in {0, 220, 1000}, r \in {1, 255, 2000} }

default_dsonar_config == [base_frequency |-> 220, frequency_range |-> 2000]

\* frequencies (in hundredths of a hertz) around the two ends of the band of a configuration
ProbeFrequencies(config) ==
    LET lo == config.base_frequency * 100
        hi == (config.base_frequency + config.frequency_range) * 100
    IN  { Q(c, 100) : c \in {lo - 100000, lo - 100, lo - 1, lo, lo + 1, (lo + hi) \div 2,
                             hi - 1, hi, hi + 1, hi + 100, hi + 100000} }

(***************************************************************************)
(* Defaults of the variables an entry point does not use                   *)
(***************************************************************************)
IdleCodec ==
    /\ audio_sample = None
    /\ reverse_sample = None
    /\ audio_lib = None
    /\ g_initialized = 0
    /\ trace = <<>>
    /\ heap = <<>>

IdleDecoder ==
    /\ artifact = None
    /\ samples = <<>>
    /\ result = None

IdleOrchestrator ==
    /\ target = None
    /\ disk = None
    /\ idx = 0
    /\ success = TRUE
    /\ call = None
    /\ attempted = <<>>

(***************************************************************************)
(* The codec: encode a byte, decode a frequency                            *)
(***************************************************************************)
InitCodec ==
    /\ pc = "idle"
    /\ sonar_config \in EncodeConfigs
    /\ dsonar_config \in DecodeConfigs
    /\ IdleCodec /\ IdleDecoder /\ IdleOrchestrator
    /\ ret = None

\* create_audio_sample(partition[i], config)
Encode ==
    /\ pc = "idle"
    /\ \E byte \in Bytes : audio_sample' = create_audio_sample(byte, sonar_config)
    /\ pc' = "encoded"
    /\ UNCHANGED <<engine, heap>>
    /\ UNCHANGED <<sonar_config, dsonar_config, reverse_sample, artifact, samples, result,
                   target, disk, idx, success, call, attempted, ret>>

\* create_reverse_sample on the frequency the encoder produced
DecodeEncoded ==
    /\ pc = "encoded"
    /\ reverse_sample' \in
          reverse_sample_outcomes(create_reverse_sample(audio_sample.frequency, 0,
                                                        dsonar_config))
    /\ pc' = "decoded"
    /\ UNCHANGED <<engine, heap>>
    /\ UNCHANGED <<sonar_config, dsonar_config, audio_sample, artifact, samples, result,
                   target, disk, idx, success, call, attempted, ret>>

\* create_reverse_sample on a frequency that comes from elsewhere
DecodeProbe ==
    /\ pc = "idle"
    /\ \E f \in ProbeFrequencies(dsonar_config) :
          reverse_sample' \in reverse_sample_outcomes(create_reverse_sample(f, 0, dsonar_config))
    /\ pc' = "probed"
    /\ UNCHANGED <<engine, heap>>
    /\ UNCHANGED <<sonar_config, dsonar_config, audio_sample, artifact, samples, result,
                   target, disk, idx, success, call, attempted, ret>>

NextCodec == Encode \/ DecodeEncoded \/ DecodeProbe

SpecCodec == InitCodec /\ [][NextCodec]_vars

SameParameters ==
    /\ sonar_config.base_frequency = dsonar_config.base_frequency
    /\ sonar_config.frequency_range = dsonar_config.frequency_range

\* C1: with the same base_frequency and frequency_range (> 0) on both sides, decoding the
\* frequency the encoder mapped a byte to gives that byte back, for every byte 0..255.
C1_RoundTrip ==
    (pc = "decoded" /\ SameParameters)
        => reverse_sample.reconstructed_byte = audio_sample.source_byte

C1_Witness ==
    /\ pc = "decoded" /\ SameParameters
    /\ audio_sample.source_byte = 128
    /\ reverse_sample.reconstructed_byte = 128

\* C2: a frequency strictly below base_frequency decodes to 0, one strictly above
\* base_frequency + frequency_range decodes to 255.
C2_Clamping ==
    pc = "probed" =>
        /\ QLt(reverse_sample.source_frequency, QInt(dsonar_config.base_frequency))
              => reverse_sample.reconstructed_byte = 0
        /\ QLt(QInt(dsonar_config.base_frequency + dsonar_config.frequency_range),
               reverse_sample.source_frequency)
              => reverse_sample.reconstructed_byte = 255

C2_Witness ==
    /\ pc = "probed"
    /\ QLt(QInt(dsonar_config.base_frequency + dsonar_config.frequency_range),
           reverse_sample.source_frequency)
    /\ reverse_sample.reconstructed_byte = 255

(***************************************************************************)
(* The codec under any parameter setting: a band of width 0 and a band     *)
(* that runs downwards are among the settings                              *)
(***************************************************************************)
AnyRanges == {-100, 0, 2000}

AnyEncodeConfigs ==
    { [sample_rate |-> 44100, base_frequency |-> b, frequency_range |-> r,
       sample_duration |-> 50] : b \in {0, 220}, r \in AnyRanges }

AnyDecodeConfigs ==
    { [base_frequency |-> b, frequency_range |-> r] : b \in {0, 220}, r \in AnyRanges }

InitAnyCodec ==
    /\ pc = "idle"
    /\ sonar_config \in AnyEncodeConfigs
    /\ dsonar_config \in AnyDecodeConfigs
    /\ IdleCodec /\ IdleDecoder /\ IdleOrchestrator
    /\ ret = None

SpecAnyCodec == InitAnyCodec /\ [][NextCodec]_vars

\* the byte the arithmetic of frequency_to_byte defines for the decoded frequency
DefinedByte == frequency_to_byte(reverse_sample.source_frequency, dsonar_config)

\* C19: frequency_to_byte yields a defined byte in 0..255 for every frequency and every
\* decode parameter setting, those that differ from the encoder's and a frequency_range
\* of 0 included: the stored byte is the one value the arithmetic defines.
C19_DefinedByte ==
    pc \in {"decoded", "probed"} =>
        /\ DefinedByte \in Bytes
        /\ reverse_sample.reconstructed_byte = DefinedByte

\* with a frequency_range other than 0 the byte is defined whatever the mismatch
C19_NonZeroRange ==
    (pc \in {"decoded", "probed"} /\ dsonar_config.frequency_range # 0) =>
        /\ DefinedByte \in Bytes
        /\ reverse_sample.reconstructed_byte = DefinedByte

\* C20: for frequency_range >= 0 map_byte_to_frequency is non-decreasing in the byte:
\* no smaller byte maps to a higher frequency than the byte encoded and no larger byte
\* to a lower one, byte 0 maps to base_frequency and byte 255 to
\* base_frequency + frequency_range.
C20_Monotone ==
    (pc = "encoded" /\ sonar_config.frequency_range >= 0) =>
        /\ \A a \in Bytes :
              /\ a <= audio_sample.source_byte
                    => QLe(map_byte_to_frequency(a, sonar_config), audio_sample.frequency)
              /\ a >= audio_sample.source_byte
                    => QLe(audio_sample.frequency, map_byte_to_frequency(a, sonar_config))
        /\ audio_sample.source_byte = 0
              => QEq(audio_sample.frequency, QInt(sonar_config.base_frequency))
        /\ audio_sample.source_byte = ByteMax
              => QEq(audio_sample.frequency,
                     QInt(sonar_config.base_frequency + sonar_config.frequency_range))

\* the top byte encoded in a band of positive width, above every other byte's frequency
C20_Witness ==
    /\ pc = "encoded" /\ sonar_config.frequency_range > 0
    /\ audio_sample.source_byte = ByteMax
    /\ \A a \in 0..(ByteMax - 1) :
          QLt(map_byte_to_frequency(a, sonar_config), audio_sample.frequency)

\* a byte encoded in a band of width 0: every byte maps to base_frequency
C20_WitnessFlat ==
    /\ pc = "encoded" /\ sonar_config.frequency_range = 0
    /\ audio_sample.source_byte = 128
    /\ QEq(audio_sample.frequency, QInt(sonar_config.base_frequency))

(***************************************************************************)
(* The four decoders, each run on a file of its kind                       *)
(***************************************************************************)
MaxCsvRows == 3
MaxJsonLines == 4
MaxReportLines == 5
MaxWindows == 2

SeqsUpTo(S, n) == UNION {[1..k -> S] : k \in 0..n}

\* what "%.2f" prints for a non-negative frequency, read back by "%lf"
Round2(f) == Q((f.n * 200 + f.d) \div (2 * f.d), 100)

\* the default band, a band with a window of 50 samples, a band with a window of 5
DecoderConfigs ==
    {default_dsonar_config, [base_frequency |-> 1000, frequency_range |-> 255],
     [base_frequency |-> 100, frequency_range |-> 255]}

\* frequency table lines
CsvHeader == [parsed |-> 0, byte_dec |-> 0, frequency |-> Zero, amplitude |-> 0]
CsvRow(b, f, a) == [parsed |-> CsvFieldCount, byte_dec |-> b, frequency |-> f, amplitude |-> a]
CsvMalformed == [parsed |-> 2, byte_dec |-> 0, frequency |-> Zero, amplitude |-> 0]
CsvRowChoices ==
    {CsvRow(b, Q(22000, 100), a) : b \in {65, 66, 67}, a \in {300, 900}} \cup {CsvMalformed}
CsvFiles ==
    {NoFile, TextFile(<<>>)}
        \cup {TextFile(<<CsvHeader>> \o rows) : rows \in SeqsUpTo(CsvRowChoices, MaxCsvRows)}

\* metadata document lines
JsonByteLine(b) == [kind |-> "byte", val |-> b, indent |-> 6, len |-> 22]
JsonFrequencyLine(f) == [kind |-> "frequency", val |-> f, indent |-> 6, len |-> 27]
JsonOtherLine(n) == [kind |-> "other", val |-> 0, indent |-> 0, len |-> n]
JsonLineChoices(config) ==
    {JsonByteLine(b) : b \in {0, 65}}
        \cup {JsonFrequencyLine(Round2(map_byte_to_frequency(b, config))) : b \in {0, 65}}
        \cup {JsonOtherLine(n) : n \in {7, 150}}
JsonFiles(config) ==
    {NoFile} \cup {TextFile(l) : l \in SeqsUpTo(JsonLineChoices(config), MaxJsonLines)}

\* analysis report lines
ReportMarker == [kind |-> "marker", val |-> Zero, byte_val |-> 0, len |-> 22]
ReportData(b, f, n) == [kind |-> "data", val |-> f, byte_val |-> b, len |-> n]
ReportOther == [kind |-> "other", val |-> Zero, byte_val |-> 0, len |-> 30]
ReportLineChoices(config) ==
    {ReportMarker, ReportOther,
     ReportData(72, Round2(map_byte_to_frequency(65, config)), 25),
     ReportData(66, Round2(map_byte_to_frequency(66, config)), 25),
     ReportData(1, Q(100, 100), 10)}
ReportFiles(config) ==
    {NoFile} \cup {TextFile(l) : l \in SeqsUpTo(ReportLineChoices(config), MaxReportLines)}

\* one window of n samples whose sign changes at each of the first k sample boundaries
Window(n, k) == [i \in 1..n |-> IF (Min(i - 1, k) % 2) = 0 THEN 1000 ELSE -1000]
WindowChoices(n) == {Window(n, k) : k \in {0, 1, 2, 3, n - 1}}
RECURSIVE Concat(_)
Concat(ss) == IF ss = <<>> THEN <<>> ELSE Head(ss) \o Concat(Tail(ss))
PcmChoices(n) ==
    {Concat(ws) \o tail : ws \in SeqsUpTo(WindowChoices(n), MaxWindows),
                          tail \in {<<>>, SubSeq(Window(n, 1), 1, n - 1)}}
\* sample i of a sine of the given frequency whose phase is phase/PhaseSteps half
\* periods at sample 0: its sign, sin(pi*x) >= 0 iff floor(x) is even or x is whole
PhaseSteps == 4

ToneSample(frequency, sample_rate, i, phase) ==
    LET num == 2 * frequency.n * i * PhaseSteps + phase * frequency.d * sample_rate
        den == frequency.d * sample_rate * PhaseSteps
    IN  IF (num \div den) % 2 = 0 \/ num % den = 0 THEN 1000 ELSE -1000

Tone(frequency, sample_rate, n, phase) ==
    [i \in 1..n |-> ToneSample(frequency, sample_rate, i - 1, phase)]

\* base_frequency + 0.5 * frequency_range
MidFrequency(config) == Q(2 * config.base_frequency + config.frequency_range, 2)

\* containers holding one decoder window of the tone at the middle of the band
ToneFiles(config) ==
    {[exists |-> TRUE, size |-> WavHeaderSize + 2 * wav_chunk_size(config),
      riff |-> TRUE, wave |-> TRUE, channels |-> 1, sample_rate |-> rate,
      bits_per_sample |-> 16,
      pcm |-> Tone(MidFrequency(config), rate, wav_chunk_size(config), phase)] :
        rate \in {8000, 44100}, phase \in 0..(2 * PhaseSteps - 1)}

WavFiles(config) ==
    ToneFiles(config) \cup {NoFile} \cup
    {[exists |-> TRUE, size |-> IF short THEN 20 ELSE WavHeaderSize + 2 * Len(pcm),
      riff |-> riff, wave |-> wave, channels |-> 1, sample_rate |-> rate,
      bits_per_sample |-> 16, pcm |-> IF short THEN <<>> ELSE pcm] :
        short \in BOOLEAN, riff \in BOOLEAN, wave \in BOOLEAN, rate \in {8000, 44100},
        pcm \in PcmChoices(wav_chunk_size(config))} \cup
    {[exists |-> TRUE, size |-> size, riff |-> TRUE, wave |-> TRUE, channels |-> 2,
      sample_rate |-> 22050, bits_per_sample |-> 8, pcm |-> Window(wav_chunk_size(config), 1)] :
        size \in {0, WavHeaderSize - 1, WavHeaderSize + 2 * wav_chunk_size(config)}}

InitDecoders ==
    /\ pc = "idle"
    /\ sonar_config = None
    /\ dsonar_config \in DecoderConfigs
    /\ IdleCodec /\ IdleDecoder /\ IdleOrchestrator
    /\ ret = None

ReconstructFromCsv ==
    /\ pc = "idle"
    /\ \E file \in CsvFiles :
          /\ artifact' = reconstruct_from_csv_after(file, dsonar_config).file
          /\ dsonar_config' = reconstruct_from_csv_after(file, dsonar_config).config
          /\ result' = reconstruct_from_csv(file, dsonar_config)
          /\ heap' = reconstruct_from_csv_heap(file, dsonar_config)
    /\ pc' = "csv"
    /\ UNCHANGED engine
    /\ UNCHANGED <<sonar_config, audio_sample, reverse_sample, samples,
                   target, disk, idx, success, call, attempted, ret>>

\* the caller releases the result and decodes the same table once more with the same
\* parameters; call keeps the first result
ReconstructFromCsvAgain ==
    /\ pc = "csv"
    /\ call' = [first |-> result]
    /\ artifact' = reconstruct_from_csv_after(artifact, dsonar_config).file
    /\ dsonar_config' = reconstruct_from_csv_after(artifact, dsonar_config).config
    /\ result' = reconstruct_from_csv(artifact, dsonar_config)
    /\ heap' = heap \o free_dsonar_result(result)
                    \o reconstruct_from_csv_heap(artifact, dsonar_config)
    /\ pc' = "csv_again"
    /\ UNCHANGED engine
    /\ UNCHANGED <<sonar_config, audio_sample, reverse_sample, samples,
                   target, disk, idx, success, attempted, ret>>

ReconstructFromJson ==
    /\ pc = "idle"
    /\ \E file \in JsonFiles(dsonar_config) :
          /\ artifact' = file
          /\ samples' = parse_json_metadata(file, dsonar_config).samples
          /\ call' = [tags |-> parse_json_metadata(file, dsonar_config).tags]
          /\ result' = reconstruct_from_json(file, dsonar_config)
          /\ heap' = reconstruct_from_json_heap(file, dsonar_config)
    /\ pc' = "json"
    /\ UNCHANGED engine
    /\ UNCHANGED <<sonar_config, dsonar_config, audio_sample, reverse_sample,
                   target, disk, idx, success, attempted, ret>>

ReconstructFromAnalysis ==
    /\ pc = "idle"
    /\ \E file \in ReportFiles(dsonar_config) :
          /\ artifact' = file
          /\ samples' = parse_analysis_report(file, dsonar_config).samples
          /\ call' = [lines |-> parse_analysis_report(file, dsonar_config).lines]
          /\ result' = reconstruct_from_analysis(file, dsonar_config)
          /\ heap' = reconstruct_from_analysis_heap(file, dsonar_config)
    /\ pc' = "analysis"
    /\ UNCHANGED engine
    /\ UNCHANGED <<sonar_config, dsonar_config, audio_sample, reverse_sample,
                   target, disk, idx, success, attempted, ret>>

ReconstructFromWav ==
    /\ pc = "idle"
    /\ \E file \in WavFiles(dsonar_config) :
          /\ artifact' = file
          /\ samples' = wav_samples(file, dsonar_config)
          /\ result' = reconstruct_from_wav(file, dsonar_config)
          /\ heap' = reconstruct_from_wav_heap(file, dsonar_config)
          /\ call' = [header |-> IF file = NoFile THEN None ELSE read_wav_header(file)]
    /\ pc' = "wav"
    /\ UNCHANGED engine
    /\ UNCHANGED <<sonar_config, dsonar_config, audio_sample, reverse_sample,
                   target, disk, idx, success, attempted, ret>>

NextDecoders ==
    \/ ReconstructFromCsv
    \/ ReconstructFromCsvAgain
    \/ ReconstructFromJson
    \/ ReconstructFromAnalysis
    \/ ReconstructFromWav

SpecDecoders == InitDecoders /\ [][NextDecoders]_vars

\* the data rows of a table file
CsvDataRows(file) == SubSeq(file.lines, 2, Len(file.lines))

CsvAllWellFormed(file) ==
    /\ file # NoFile
    /\ Len(file.lines) >= 2
    /\ \A k \in 2..Len(file.lines) : file.lines[k].parsed = CsvFieldCount

CsvConfidences(file) ==
    LET rows == CsvDataRows(file)
        parsed == SelectSeq(rows, LAMBDA r : r.parsed = CsvFieldCount)
    IN  [k \in 1..Len(parsed) |-> parsed[k].amplitude]

ListConfidences(list) == [k \in 1..Len(list) |-> list[k].confidence_score]

NumberAbove(conf, threshold) == Cardinality({k \in 1..Len(conf) : conf[k] > threshold})

\* the average is the mean of the confidences (0 when there is none)
MeanOf(average, conf) ==
    IF Len(conf) = 0 THEN QEq(average, Zero) ELSE QEq(average, Q(SumSeq(conf), Len(conf)))

ListStatistics(threshold) ==
    /\ MeanOf(result.average_confidence, ListConfidences(samples))
    /\ result.successful_samples = NumberAbove(ListConfidences(samples), threshold)

\* C8 (as amended): in every result the average confidence is the mean of the per-sample
\* confidences; successful_samples counts the samples above 0.5 for the metadata decoder,
\* above 0.6 for the report decoder, and every sample for the acoustic decoder and for the
\* table decoder (every parsed row, whatever its amplitude).
C8_Statistics ==
    /\ (pc = "json" /\ result # NULL) => ListStatistics(JsonThreshold)
    /\ (pc = "analysis" /\ result # NULL) => ListStatistics(AnalysisThreshold)
    /\ (pc = "wav" /\ result # NULL) =>
          /\ MeanOf(result.average_confidence, ListConfidences(samples))
          /\ result.successful_samples = Len(samples)
    /\ (pc = "csv" /\ result # NULL) =>
          /\ MeanOf(result.average_confidence, CsvConfidences(artifact))
          /\ result.successful_samples = Len(CsvConfidences(artifact))

\* a table with a row of amplitude 0.3 next to one of 0.9: both are counted as successful
C8_Witness ==
    /\ pc = "csv" /\ result # NULL
    /\ CsvConfidences(artifact) = <<300, 900>>
    /\ result.successful_samples = 2
    /\ result.average_confidence = Q(1200, 2)

\* C8 as stated: the table decoder counts only the rows whose confidence exceeds 0.5
C8_AsStated ==
    /\ (pc = "json" /\ result # NULL) => ListStatistics(JsonThreshold)
    /\ (pc = "analysis" /\ result # NULL) => ListStatistics(AnalysisThreshold)
    /\ (pc = "wav" /\ result # NULL) =>
          /\ MeanOf(result.average_confidence, ListConfidences(samples))
          /\ result.successful_samples = Len(samples)
    /\ (pc = "csv" /\ result # NULL) =>
          /\ MeanOf(result.average_confidence, CsvConfidences(artifact))
          /\ result.successful_samples = NumberAbove(CsvConfidences(artifact), JsonThreshold)

\* C9 as stated: for every sample of the metadata decoder, a byte tag found in the searched
\* neighbourhood that equals the inverse-mapped byte gives confidence 1.0, a found tag that
\* differs gives 0.8, and no tag gives the inverse-mapped byte with confidence 0.8.
C9_TagConfidence ==
    pc = "json" =>
        \A i \in 1..Len(samples) :
            LET inverse == frequency_to_byte(samples[i].source_frequency, dsonar_config)
                tag == call.tags[i]
            IN  /\ samples[i].reconstructed_byte = inverse
                /\ (tag.found /\ tag.byte_val = inverse) => samples[i].confidence_score = 1000
                /\ (tag.found /\ tag.byte_val # inverse) => samples[i].confidence_score = 800
                /\ ~tag.found => samples[i].confidence_score = 800

\* the same for the byte values 0x01..0xFF only
C9_NonZeroTags ==
    pc = "json" =>
        \A i \in 1..Len(samples) :
            LET inverse == frequency_to_byte(samples[i].source_frequency, dsonar_config)
                tag == call.tags[i]
            IN  /\ samples[i].reconstructed_byte = inverse
                /\ (tag.found /\ tag.byte_val = inverse /\ inverse # 0)
                      => samples[i].confidence_score = 1000
                /\ (tag.found /\ tag.byte_val # inverse) => samples[i].confidence_score = 800
                /\ ~tag.found => samples[i].confidence_score = 800

(***************************************************************************)
(* The orchestrator and its batch loops                                    *)
(*                                                                         *)
(* The artifacts of a partition, the bytes of the original partition and   *)
(* the behaviour of the file system on the output are read when the        *)
(* partition is processed, so they are drawn at that step; call keeps      *)
(* them, with what the call did, until the next partition.                 *)
(***************************************************************************)
MaxPartitions == 2

\* each artifact of a partition is missing, present but undecodable, or decodable;
\* a table may also hold only rows that do not parse
OrchCsvFiles ==
    {NoFile,
     TextFile(<<CsvHeader>>),
     TextFile(<<CsvHeader, CsvMalformed>>),
     TextFile(<<CsvHeader, CsvRow(1, Q(22000, 100), 900), CsvRow(2, Q(22000, 100), 900),
                CsvRow(9, Q(22000, 100), 300), CsvRow(4, Q(22000, 100), 900)>>)}

OrchJsonFiles ==
    {NoFile,
     TextFile(<<JsonOtherLine(7)>>),
     TextFile(<<JsonFrequencyLine(Round2(map_byte_to_frequency(65, default_dsonar_config))),
                JsonByteLine(65)>>)}

OrchWavFile(size, pcm) ==
    [exists |-> TRUE, size |-> size, riff |-> TRUE, wave |-> TRUE, channels |-> 1,
     sample_rate |-> 44100, bits_per_sample |-> 16, pcm |-> pcm]

\* no header, a window without a zero crossing, a window that decodes
OrchSilentWav == OrchWavFile(66, Window(11, 0))

OrchWavFiles ==
    {NoFile, OrchWavFile(20, <<>>), OrchSilentWav, OrchWavFile(66, Window(11, 1))}

OrchReportFiles ==
    {NoFile,
     TextFile(<<ReportMarker, ReportOther, ReportOther,
                ReportData(72, Round2(map_byte_to_frequency(66, default_dsonar_config)), 25)>>)}

ArtifactSets ==
    [csv : OrchCsvFiles, json : OrchJsonFiles,
     wav : OrchWavFiles \ {OrchWavFile(20, <<>>), OrchSilentWav},
     analysis : OrchReportFiles]

\* process_wav_files_only opens only the table and the audio container
WavOnlyArtifactSets ==
    [csv : OrchCsvFiles, json : {NoFile}, wav : OrchWavFiles \ {OrchSilentWav},
     analysis : {NoFile}]

IoOutcomes == {"ok", "noopen", "short"}

\* buffers handed to calculate_reconstruction_accuracy, all of one size
AccuracyBuffers ==
    {NULL, Buffer(<<1, 2, 3, 4>>), Buffer(<<1, 2, 9, 4>>), Buffer(<<0, 0, 0, 0>>),
     Buffer(<<4, 3, 2, 1>>)}

AccuracyLengths == -1..Len(<<1, 2, 3, 4>>)

\* n bytes 1, 2, 3, 4, 1, 2, ...
BlockBytes(n) == [i \in 1..n |-> ((i - 1) % 4) + 1]

Targets ==
    {[block |-> b, partition_count |-> c, partition_size |-> z] :
        b \in {NULL, Buffer(BlockBytes(MaxPartitions * 4))},
        c \in 1..MaxPartitions, z \in {2, 4}}

default_config ==
    [sample_rate |-> 44100, base_frequency |-> 220, frequency_range |-> 2000,
     sample_duration |-> 50, use_dynamic_lib |-> TRUE]

InitDsonar ==
    /\ pc = "idle"
    /\ sonar_config = default_config
    /\ dsonar_config = default_dsonar_config
    /\ IdleCodec /\ IdleDecoder
    /\ target \in Targets
    /\ disk = [bins |-> [i \in 0..MaxPartitions |-> NoFile], combined |-> NoFile]
    /\ idx = 0
    /\ success = TRUE
    /\ call = None
    /\ attempted = <<>>
    /\ ret = None

\* what one per-partition call leaves in call, disk and attempted
RecordCall(kind, index, files, io, r) ==
    /\ call' = [kind |-> kind, index |-> index, files |-> files, io |-> io,
                before |-> disk.bins[index], ret |-> r.ret, ran |-> r.ran,
                result |-> r.result, saved |-> r.saved, accuracy |-> r.accuracy]
    /\ disk' = [disk EXCEPT !.bins[index] = r.file]
    /\ attempted' = Append(attempted, [index |-> index, ok |-> r.ret])
    /\ heap' = r.heap

\* mbx_dsonar(target, index, arg) called on its own
MbxDsonar ==
    /\ pc = "idle"
    /\ \E index \in 0..MaxPartitions, files \in ArtifactSets, io \in IoOutcomes :
          \E r \in {mbx_dsonar(target, index, dsonar_config, files, disk.bins[index], io)} :
              /\ RecordCall("mbx_dsonar", index, files, io, r)
              /\ ret' = r.ret
    /\ pc' = "called"
    /\ UNCHANGED engine
    /\ UNCHANGED <<sonar_config, dsonar_config, audio_sample, reverse_sample, artifact,
                   samples, result, target, idx, success>>

\* process_single_wav_file(wav_filename): its output has a name of its own, kept in call
ProcessSingleWavFile ==
    /\ pc = "idle"
    /\ \E wav \in OrchWavFiles, old_file \in {NoFile, [exists |-> TRUE, bytes |-> <<7>>]},
          io \in IoOutcomes :
          \E r \in {process_single_wav_file(wav, old_file, io)} :
              /\ call' = [kind |-> "single_wav", index |-> 0,
                          files |-> [csv |-> NoFile, json |-> NoFile, wav |-> wav,
                                     analysis |-> NoFile],
                          io |-> io, ret |-> r.ret, ran |-> r.ran, result |-> r.result,
                          saved |-> r.saved, accuracy |-> r.accuracy, file |-> r.file]
              /\ ret' = r.ret
              /\ heap' = r.heap
    /\ pc' = "called"
    /\ UNCHANGED engine
    /\ UNCHANGED <<sonar_config, dsonar_config, audio_sample, reverse_sample, artifact,
                   samples, result, target, disk, idx, success, attempted>>

\* calculate_reconstruction_accuracy(original, reconstructed, length) called on its own,
\* with a length that both buffers hold
CalculateAccuracy ==
    /\ pc = "idle"
    /\ \E original \in AccuracyBuffers, reconstructed \in AccuracyBuffers,
          length \in AccuracyLengths :
          /\ call' = [kind |-> "accuracy", original |-> original,
                      reconstructed |-> reconstructed, length |-> length]
          /\ ret' = calculate_reconstruction_accuracy(original, reconstructed, length)
    /\ pc' = "called"
    /\ UNCHANGED <<engine, heap>>
    /\ UNCHANGED <<sonar_config, dsonar_config, audio_sample, reverse_sample, artifact,
                   samples, result, target, disk, idx, success, attempted>>

\* mbx_dsonar_batch_process / process_wav_files_only: entry
BatchStart ==
    /\ pc = "idle"
    /\ pc' \in {"batch_loop", "wav_only_loop"}
    /\ idx' = 0
    /\ success' = TRUE
    /\ UNCHANGED <<engine, heap>>
    /\ UNCHANGED <<sonar_config, dsonar_config, audio_sample, reverse_sample, artifact,
                   samples, result, target, disk, call, attempted, ret>>

\* mbx_dsonar_batch_process: one iteration of the loop
BatchIteration ==
    /\ pc = "batch_loop"
    /\ idx < target.partition_count
    /\ \E files \in ArtifactSets, io \in IoOutcomes :
          \E r \in {mbx_dsonar(target, idx, dsonar_config, files, disk.bins[idx], io)} :
              /\ RecordCall("mbx_dsonar", idx, files, io, r)
              /\ success' = fold_success(success, r.ret)
    /\ idx' = idx + 1
    /\ UNCHANGED engine
    /\ UNCHANGED <<pc, sonar_config, dsonar_config, audio_sample, reverse_sample, artifact,
                   samples, result, target, ret>>

\* process_wav_files_only: one iteration of the loop
WavOnlyIteration ==
    /\ pc = "wav_only_loop"
    /\ idx < target.partition_count
    /\ \E files \in WavOnlyArtifactSets, io \in IoOutcomes :
          \E r \in {wav_only_iteration(files, disk.bins[idx], io)} :
              /\ RecordCall("wav_only", idx, files, io, r)
              /\ success' = fold_success(success, r.ret)
    /\ idx' = idx + 1
    /\ UNCHANGED engine
    /\ UNCHANGED <<pc, sonar_config, dsonar_config, audio_sample, reverse_sample, artifact,
                   samples, result, target, ret>>

\* after the loop: combine when every partition succeeded, and return
BatchFinish ==
    /\ pc \in {"batch_loop", "wav_only_loop"}
    /\ ~(idx < target.partition_count)
    /\ \E opens \in BOOLEAN :
          LET c == combine_partition_files(disk.bins, target.partition_count,
                                           disk.combined, opens)
          IN  IF success
              THEN /\ disk' = [disk EXCEPT !.combined = c.file]
                   /\ ret' = c.ok
              ELSE /\ disk' = disk
                   /\ ret' = FALSE
    /\ pc' = IF pc = "batch_loop" THEN "batch_done" ELSE "wav_only_done"
    /\ UNCHANGED <<engine, heap>>
    /\ UNCHANGED <<sonar_config, dsonar_config, audio_sample, reverse_sample, artifact,
                   samples, result, target, idx, success, call, attempted>>


(***************************************************************************)
(* The combiner on its own: partition files are written by                 *)
(* save_reconstructed_data, then combine_partition_files is called with    *)
(* some partition count.                                                   *)
(***************************************************************************)
MaxCombineCount == 3

\* contents saved to a partition file; the last one needs two reads of the buffer
CombineData == {<<7>>, BlockBytes(5), BlockBytes(10), BlockBytes(CombineBufferSize + 4)}

InitCombine ==
    /\ pc = "idle"
    /\ sonar_config = None
    /\ dsonar_config = default_dsonar_config
    /\ IdleCodec /\ IdleDecoder
    /\ target = None
    /\ disk = [bins |-> [i \in 0..(MaxCombineCount - 1) |-> NoFile], combined |-> NoFile]
    /\ idx = 0
    /\ success = TRUE
    /\ call = None
    /\ attempted = <<>>
    /\ ret = None

SavePartition ==
    /\ pc = "idle"
    /\ \E i \in DOMAIN disk.bins, data \in CombineData, io \in IoOutcomes :
          LET res == [reconstructed_data |-> Buffer(data), data_length |-> Len(data)]
              sv == save_reconstructed_data(disk.bins[i], res, io)
          IN  disk' = [disk EXCEPT !.bins[i] = sv.file]
    /\ UNCHANGED <<engine, heap>>
    /\ UNCHANGED <<pc, sonar_config, dsonar_config, audio_sample, reverse_sample, artifact,
                   samples, result, target, idx, success, call, attempted, ret>>

CombinePartitionFiles ==
    /\ pc = "idle"
    /\ \E partition_count \in 0..MaxCombineCount, opens \in BOOLEAN :
          LET c == combine_partition_files(disk.bins, partition_count, disk.combined, opens)
          IN  /\ disk' = [disk EXCEPT !.combined = c.file]
              /\ ret' = c.ok
              /\ call' = [partition_count |-> partition_count, opens |-> opens]
    /\ pc' = "combined"
    /\ UNCHANGED <<engine, heap>>
    /\ UNCHANGED <<sonar_config, dsonar_config, audio_sample, reverse_sample, artifact,
                   samples, result, target, idx, success, attempted>>

NextCombine == SavePartition \/ CombinePartitionFiles

SpecCombine == InitCombine /\ [][NextCombine]_vars

(***************************************************************************)
(* Properties of the orchestrator, the accuracy and the combiner           *)
(***************************************************************************)
IsDsonarCall == call # None /\ call.kind = "mbx_dsonar"

Priority == <<"csv", "json", "wav", "analysis">>

Existing(files) == {k \in 1..Len(Priority) : files[Priority[k]] # NoFile}

\* artifact k parses to at least one sample
Decodes(k, files) ==
    LET res == reconstruct_from(Priority[k], files, default_dsonar_config)
    IN  res # NULL /\ res.data_length > 0

Lowest(S) == CHOOSE k \in S : \A j \in S : k <= j

\* C4: when the highest-priority artifact that exists (table, then metadata, then
\* audio container, then report) decodes, mbx_dsonar runs that decoder and no other,
\* and its result is what that decoder returns.
C4_Priority ==
    IsDsonarCall =>
        LET present == Existing(call.files)
        IN  (present # {} /\ Decodes(Lowest(present), call.files)) =>
                /\ call.ran = <<Priority[Lowest(present)]>>
                /\ call.result = reconstruct_from(Priority[Lowest(present)], call.files,
                                                  default_dsonar_config)
                /\ call.ret = TRUE

\* the metadata document is the highest-priority artifact present, two lower ones exist too
C4_Witness ==
    /\ IsDsonarCall
    /\ Existing(call.files) = {2, 3, 4}
    /\ call.ran = <<"json">>
    /\ call.result # NULL
    /\ call.result.reconstructed_data = Buffer(<<65>>)

\* C5: when the highest-priority existing artifact fails to decode, mbx_dsonar goes on
\* to the next existing one, stops at the first that decodes, and fails only if every
\* existing artifact fails.
C5_Fallback ==
    IsDsonarCall =>
        LET good == {k \in Existing(call.files) : Decodes(k, call.files)}
        IN  IF good = {} THEN call.ret = FALSE
            ELSE /\ call.ret = TRUE
                 /\ call.result = reconstruct_from(Priority[Lowest(good)], call.files,
                                                   default_dsonar_config)

NumberOfMatches(original, reconstructed, length) ==
    Cardinality({i \in 1..length : original[i] = reconstructed[i]})

ExpectedAccuracy(original, reconstructed, length) ==
    IF original = NULL \/ reconstructed = NULL \/ length <= 0 THEN Zero
    ELSE Q(NumberOfMatches(original.bytes, reconstructed.bytes, length), length)

IsRatio(q) == q.d > 0 /\ 0 <= q.n /\ q.n <= q.d

RECURSIVE ConcatBins(_, _)
ConcatBins(bins, n) ==
    IF n = 0 THEN <<>>
    ELSE ConcatBins(bins, n - 1) \o (IF bins[n - 1].exists THEN bins[n - 1].bytes ELSE <<>>)

\* C7: combine_partition_files writes the partition files 0..N-1 that exist, in index
\* order, into the output, skips a missing one, and succeeds exactly when it has
\* written at least one byte (it fails when the output cannot be created).
C7_Combine ==
    pc = "combined" =>
        IF call.opens
        THEN /\ disk.combined.exists
             /\ disk.combined.bytes = ConcatBins(disk.bins, call.partition_count)
             /\ ret = (Len(disk.combined.bytes) > 0)
        ELSE ret = FALSE /\ disk.combined = NoFile

\* 10 bytes, missing, 5 bytes: 15 bytes and success
C7_Witness ==
    /\ pc = "combined"
    /\ call.partition_count = 3 /\ call.opens
    /\ disk.bins[0].exists /\ Len(disk.bins[0].bytes) = 10
    /\ ~disk.bins[1].exists
    /\ disk.bins[2].exists /\ Len(disk.bins[2].bytes) = 5
    /\ Len(disk.combined.bytes) = 15
    /\ ret = TRUE

BatchDone == pc \in {"batch_done", "wav_only_done"}

\* C10: when a batch returns, every index 0..N-1 has been attempted once, in order,
\* whatever the earlier ones returned, and the result is false if any of them failed.
C10_BatchContinues ==
    BatchDone =>
        /\ Len(attempted) = target.partition_count
        /\ \A i \in 1..Len(attempted) : attempted[i].index = i - 1
        /\ (\E i \in 1..Len(attempted) : ~attempted[i].ok) => ret = FALSE

\* the first partition failed and the second was still attempted, and succeeded
C10_Witness ==
    /\ BatchDone
    /\ Len(attempted) = 2
    /\ ~attempted[1].ok /\ attempted[2].ok
    /\ attempted[2].index = 1
    /\ ret = FALSE

(***************************************************************************)
(* Error handling of the decoders                                          *)
(***************************************************************************)
CsvWellFormed(row) == row.parsed = CsvFieldCount

CsvParsedRows(file) == SelectSeq(CsvDataRows(file), CsvWellFormed)

\* C11: reconstruct_from_csv returns no result when the header row cannot be read and
\* when no data row parses, a table whose data rows are all malformed included.
C11_CsvFailure ==
    (pc = "csv" /\ artifact # NoFile) =>
        ((Len(artifact.lines) = 0 \/ Len(CsvParsedRows(artifact)) = 0) => result = NULL)

\* the two failures the decoder does report: no header line, no line after the header
C11_EmptyTable ==
    (pc = "csv" /\ artifact # NoFile /\ Len(artifact.lines) <= 1) => result = NULL

\* C12: a data row that does not parse is skipped: the result holds the byte of every
\* well-formed row before and after it, in row order, and a result is returned.
C12_SkipMalformed ==
    (pc = "csv" /\ artifact # NoFile /\ Len(artifact.lines) >= 2) =>
        LET rows == CsvParsedRows(artifact)
        IN  /\ result # NULL
            /\ result.reconstructed_data =
                  Buffer([k \in 1..Len(rows) |-> ToUChar(rows[k].byte_dec)])
            /\ result.data_length = Len(rows)
            /\ result.successful_samples = Len(rows)

\* a malformed row between two well-formed ones
C12_Witness ==
    /\ pc = "csv" /\ artifact # NoFile
    /\ Len(artifact.lines) = 4
    /\ CsvWellFormed(artifact.lines[2])
    /\ ~CsvWellFormed(artifact.lines[3])
    /\ CsvWellFormed(artifact.lines[4])
    /\ result # NULL
    /\ result.reconstructed_data = Buffer(<<65, 67>>)

\* C13: a container holding, for one decoder window, a single tone at exactly
\* base_frequency + 0.5 * frequency_range decodes to one sample whose byte is 128
\* (within 1) with confidence 0.7.
C13_MidTone ==
    (pc = "wav" /\ artifact \in ToneFiles(dsonar_config)) =>
        /\ result # NULL
        /\ Len(samples) = 1
        /\ samples[1].reconstructed_byte \in 127..129
        /\ samples[1].confidence_score = WavConfidence

\* what the decoder does give for such a window: nothing, or one sample with confidence
\* 0.7 whose frequency is a multiple of sample_rate / (2 * chunk_size)
C13_Quantised ==
    (pc = "wav" /\ artifact \in ToneFiles(dsonar_config)) =>
        /\ Len(samples) <= 1
        /\ \A k \in 1..Len(samples) :
              /\ samples[k].confidence_score = WavConfidence
              /\ \E zc \in 1..wav_chunk_size(dsonar_config) :
                    samples[k].source_frequency =
                        Q(zc * artifact.sample_rate, 2 * wav_chunk_size(dsonar_config))

\* C14: read_wav_header fails when the file holds fewer than 44 bytes or a container tag
\* is wrong, and reconstruct_from_wav then returns no result and no sample; otherwise it
\* returns the channel count, sample rate and bit depth the header was written with.
C14_WavHeader ==
    (pc = "wav" /\ artifact # NoFile) =>
        IF artifact.size < WavHeaderSize \/ ~artifact.riff \/ ~artifact.wave
        THEN ~call.header.ok /\ result = NULL /\ samples = <<>>
        ELSE call.header = [ok |-> TRUE, channels |-> artifact.channels,
                            sample_rate |-> artifact.sample_rate,
                            bits_per_sample |-> artifact.bits_per_sample]

\* a two-channel, 8-bit, 22050 Hz header is read back
C14_Witness ==
    /\ pc = "wav" /\ artifact # NoFile
    /\ artifact.size >= WavHeaderSize /\ artifact.riff /\ artifact.wave
    /\ artifact.channels = 2
    /\ call.header = [ok |-> TRUE, channels |-> 2, sample_rate |-> 22050,
                      bits_per_sample |-> 8]

\* a header cut one byte short is refused
C14_WitnessShort ==
    /\ pc = "wav" /\ artifact # NoFile
    /\ artifact.size = WavHeaderSize - 1 /\ artifact.riff /\ artifact.wave
    /\ ~call.header.ok /\ result = NULL

(***************************************************************************)
(* Error handling of the orchestrator                                      *)
(***************************************************************************)
IsDecodeCall == call # None /\ call.kind \in {"mbx_dsonar", "wav_only", "single_wav"}

\* a result was produced and its output file could not be opened or fully written
SaveFailed ==
    /\ call.result # NULL
    /\ \/ call.io = "noopen"
       \/ call.io = "short" /\ call.result.data_length > 0

\* C15: when the output file of a partition cannot be opened or fully written, mbx_dsonar,
\* process_single_wav_file and process_wav_files_only report failure for the partition.
C15_SaveFailure == (IsDecodeCall /\ SaveFailed) => call.ret = FALSE

\* the two stand-alone paths do report it
C15_WavPaths ==
    (IsDecodeCall /\ call.kind # "mbx_dsonar" /\ SaveFailed) => call.ret = FALSE

\* C16: when none of the four artifacts exists, mbx_dsonar returns failure, runs no
\* decoder and leaves the partition's output file as it was.
C16_NoArtifact ==
    (IsDsonarCall /\ Existing(call.files) = {}) =>
        /\ call.ret = FALSE
        /\ call.ran = <<>>
        /\ call.result = NULL
        /\ disk.bins[call.index] = call.before

\* no artifact for partition 1 of a batch whose partition 0 wrote its output
C16_Witness ==
    /\ IsDsonarCall /\ Existing(call.files) = {}
    /\ call.index = 1
    /\ disk.bins[0] # NoFile
    /\ disk.bins[1] = NoFile
    /\ call.ret = FALSE

(***************************************************************************)
(* mbx_sonar and the playback backend                                      *)
(*                                                                         *)
(* library is what LOAD_LIBRARY finds at the backend's path: nothing       *)
(* ("absent"), the audio engine of this repository ("engine"), or a        *)
(* library without play_frequency ("no_play").  A backend call is recorded *)
(* in trace with what it returns: "ok", "not_initialized" (the engine's    *)
(* g_initialized test) or "invalid" (its parameter test).                  *)
(***************************************************************************)
MaxInvocations == 2

Libraries == {"absent", "engine", "no_play"}

EngineExports ==
    {"init_audio", "play_frequency", "generate_wav", "cleanup_audio",
     "generate_analysis_report", "generate_frequency_data", "generate_metadata_json"}

\* GET_PROC_ADDRESS(handle, name) is not NULL
Exports(library, name) ==
    /\ library # "absent"
    /\ name \in EngineExports
    /\ ~(library = "no_play" /\ name = "play_frequency")

AudioLibZero == [name \in EngineExports \cup {"lib_handle"} |-> FALSE]

Event(name, r) == [call |-> name, ret |-> r]

\* init_audio(sample_rate): always 0
init_audio(initialized) == [ret |-> "ok", g_initialized |-> 1]

\* play_frequency / generate_wav start with the g_initialized test
play_frequency(initialized) == IF initialized = 0 THEN "not_initialized" ELSE "ok"

generate_wav(initialized, head) ==
    IF initialized = 0 THEN "not_initialized"
    ELSE IF Len(head) = 0 THEN "invalid"
    ELSE "ok"

\* generate_analysis_report / generate_frequency_data / generate_metadata_json
generate_file(head) == IF Len(head) = 0 THEN "invalid" ELSE "ok"

\* cleanup_audio(): nothing when not initialised
cleanup_audio(initialized) == 0

\* a loader that does not call init_audio
load_audio_library_without_init(library, initialized) ==
    IF library = "absent"
    THEN [ok |-> FALSE, audio_lib |-> AudioLibZero, g_initialized |-> initialized,
          events |-> <<Event("load", "failed")>>]
    ELSE LET lib == [name \in EngineExports \cup {"lib_handle"} |->
                        name = "lib_handle" \/ Exports(library, name)]
         IN  IF ~lib["init_audio"] \/ ~lib["play_frequency"]
             THEN [ok |-> FALSE, audio_lib |-> lib, g_initialized |-> initialized,
                   events |-> <<Event("load", "ok"), Event("free_library", "ok")>>]
             ELSE [ok |-> TRUE, audio_lib |-> lib, g_initialized |-> initialized,
                   events |-> <<Event("load", "ok")>>]

load_audio_library(library, initialized) ==
    IF library = "absent"
    THEN [ok |-> FALSE, audio_lib |-> AudioLibZero, g_initialized |-> initialized,
          events |-> <<Event("load", "failed")>>]
    ELSE LET lib == [name \in EngineExports \cup {"lib_handle"} |->
                        name = "lib_handle" \/ Exports(library, name)]
             init == init_audio(initialized)
         IN  IF ~lib["init_audio"] \/ ~lib["play_frequency"]
             THEN [ok |-> FALSE, audio_lib |-> lib, g_initialized |-> initialized,
                   events |-> <<Event("load", "ok"), Event("free_library", "ok")>>]
             ELSE [ok |-> TRUE, audio_lib |-> lib, g_initialized |-> init.g_initialized,
                   events |-> <<Event("load", "ok"), Event("init_audio", init.ret)>>]

\* unload_audio_library(&audio_lib)
unload_audio_library(lib, initialized) ==
    IF ~lib["lib_handle"]
    THEN [audio_lib |-> lib, g_initialized |-> initialized, events |-> <<>>]
    ELSE [audio_lib |-> AudioLibZero,
          g_initialized |-> IF lib["cleanup_audio"] THEN cleanup_audio(initialized)
                            ELSE initialized,
          events |-> (IF lib["cleanup_audio"] THEN <<Event("cleanup_audio", "ok")>>
                      ELSE <<>>) \o <<Event("free_library", "ok")>>]

SonarBlock == <<65, 0, 255, 66>>

SonarTargets ==
    {[block |-> NULL, partition_count |-> 1, partition_size |-> 4],
     [block |-> Buffer(SonarBlock), partition_count |-> 1, partition_size |-> 4],
     [block |-> Buffer(SonarBlock), partition_count |-> 2, partition_size |-> 2],
     [block |-> Buffer(<<>>), partition_count |-> 1, partition_size |-> 0]}

InitSonar ==
    /\ pc = "idle"
    /\ sonar_config \in {default_config, [default_config EXCEPT !.use_dynamic_lib = FALSE]}
    /\ dsonar_config = default_dsonar_config
    /\ IdleCodec /\ IdleDecoder
    /\ target \in SonarTargets
    /\ disk = None
    /\ idx = 0
    /\ success = TRUE
    /\ call = None
    /\ attempted = <<>>
    /\ ret = None

\* the list of create_audio_sample(partition[i], config) for the bytes of a partition
audio_list(partition, config) ==
    [i \in 1..Len(partition) |-> create_audio_sample(partition[i], config)]

\* mbx_sonar(target, index, arg): the argument test and the sample list; artifact
\* collects the files the invocation writes
SonarEnter ==
    /\ pc = "idle"
    /\ Len(attempted) < MaxInvocations
    /\ \E index \in 0..2 :
          /\ attempted' = Append(attempted, index)
          /\ IF target.block = NULL \/ index >= target.partition_count
             THEN /\ pc' = "sonar_done"
                  /\ ret' = FALSE
                  /\ call' = [kind |-> "mbx_sonar", index |-> index, lib_loaded |-> FALSE]
                  /\ samples' = <<>>
                  /\ heap' = <<>>
             ELSE LET partition == MOJIBAKE_BLOCK_OFFSET(target, index).bytes
                  IN  /\ pc' = "sonar_load"
                      /\ ret' = None
                      /\ call' = [kind |-> "mbx_sonar", index |-> index,
                                  lib_loaded |-> FALSE]
                      /\ samples' = audio_list(partition, sonar_config)
                      /\ heap' = NodeMallocs("audio_sample_node", Len(partition))
    /\ trace' = <<>>
    /\ artifact' = {}
    /\ UNCHANGED <<sonar_config, dsonar_config, audio_sample, reverse_sample,
                   result, target, disk, idx, success, audio_lib, g_initialized>>

\* if (config->use_dynamic_lib) lib_loaded = load_audio_library(&audio_lib, path)
SonarLoad ==
    /\ pc = "sonar_load"
    /\ IF sonar_config.use_dynamic_lib
       THEN \E library \in Libraries :
               LET l == load_audio_library(library, 0)
               IN  /\ audio_lib' = l.audio_lib
                   /\ g_initialized' = l.g_initialized
                   /\ trace' = trace \o l.events
                   /\ call' = [call EXCEPT !.lib_loaded = l.ok]
       ELSE /\ audio_lib' = AudioLibZero
            /\ UNCHANGED <<g_initialized, trace, call>>
    /\ idx' = 0
    /\ pc' = "sonar_output"
    /\ UNCHANGED <<sonar_config, dsonar_config, audio_sample, reverse_sample, artifact,
                   samples, result, target, disk, success, attempted, ret, heap>>

\* play_audio_list: one play_frequency per sample
SonarPlay ==
    /\ pc = "sonar_output"
    /\ call.lib_loaded
    /\ audio_lib["play_frequency"]
    /\ idx < Len(samples)
    /\ trace' = Append(trace, Event("play_frequency", play_frequency(g_initialized)))
    /\ idx' = idx + 1
    /\ UNCHANGED <<pc, sonar_config, dsonar_config, audio_sample, reverse_sample, artifact,
                   samples, result, target, disk, success, call, attempted, ret,
                   audio_lib, g_initialized, heap>>

Written(index, kinds) == {[index |-> index, kind |-> k] : k \in kinds}

\* the files generated through the backend after the playback
SonarGenerate ==
    /\ pc = "sonar_output"
    /\ call.lib_loaded
    /\ ~(audio_lib["play_frequency"] /\ idx < Len(samples))
    /\ LET wav == generate_wav(g_initialized, samples)
           other == generate_file(samples)
           names == <<"generate_wav", "generate_analysis_report",
                      "generate_frequency_data", "generate_metadata_json">>
           present == SelectSeq(names, LAMBDA n : audio_lib[n])
       IN  /\ trace' = trace \o [k \in 1..Len(present) |->
                                    Event(present[k],
                                          IF present[k] = "generate_wav" THEN wav
                                          ELSE other)]
           /\ artifact' = artifact \cup Written(call.index,
                          {present[k] : k \in {j \in 1..Len(present) :
                              (IF present[j] = "generate_wav" THEN wav ELSE other) = "ok"}})
    /\ pc' = "sonar_cleanup"
    /\ UNCHANGED <<sonar_config, dsonar_config, audio_sample, reverse_sample, disk,
                   samples, result, target, idx, success, call, attempted, ret,
                   audio_lib, g_initialized, heap>>

\* generate_wav_file(audio_head, filename, config) when no backend is loaded
SonarBuiltinWav ==
    /\ pc = "sonar_output"
    /\ ~call.lib_loaded
    /\ \E opens \in BOOLEAN :
          artifact' = IF opens
                      THEN artifact \cup Written(call.index, {"generate_wav_file"})
                      ELSE artifact
    /\ pc' = "sonar_cleanup"
    /\ UNCHANGED <<engine, heap>>
    /\ UNCHANGED <<sonar_config, dsonar_config, audio_sample, reverse_sample, disk,
                   samples, result, target, idx, success, call, attempted, ret>>

\* free_audio_list, unload_audio_library when the backend was loaded, return true
SonarCleanup ==
    /\ pc = "sonar_cleanup"
    /\ heap' = heap \o free_audio_list(samples)
    /\ IF call.lib_loaded
       THEN LET u == unload_audio_library(audio_lib, g_initialized)
            IN  /\ audio_lib' = u.audio_lib
                /\ g_initialized' = u.g_initialized
                /\ trace' = trace \o u.events
       ELSE UNCHANGED <<audio_lib, g_initialized, trace>>
    /\ ret' = TRUE
    /\ pc' = "sonar_done"
    /\ UNCHANGED <<sonar_config, dsonar_config, audio_sample, reverse_sample, artifact,
                   samples, result, target, disk, idx, success, call, attempted>>

\* mojibake_execute goes on to its next call of the module
SonarReturn ==
    /\ pc = "sonar_done"
    /\ Len(attempted) < MaxInvocations
    /\ pc' = "idle"
    /\ UNCHANGED <<engine, heap>>
    /\ UNCHANGED <<sonar_config, dsonar_config, audio_sample, reverse_sample, artifact,
                   samples, result, target, disk, idx, success, call, attempted, ret>>

NextSonar ==
    \/ SonarEnter
    \/ SonarLoad
    \/ SonarPlay
    \/ SonarGenerate
    \/ SonarBuiltinWav
    \/ SonarCleanup
    \/ SonarReturn

SpecSonar == InitSonar /\ [][NextSonar]_vars

\* the encode and decode sessions of the command line, one mbx_sonar invocation included
NextDsonar ==
    \/ MbxDsonar
    \/ ProcessSingleWavFile
    \/ CalculateAccuracy
    \/ BatchStart
    \/ BatchIteration
    \/ WavOnlyIteration
    \/ BatchFinish
    \/ SonarEnter
    \/ SonarLoad
    \/ SonarPlay
    \/ SonarGenerate
    \/ SonarBuiltinWav
    \/ SonarCleanup

SpecDsonar == InitDsonar /\ [][NextDsonar]_vars

(***************************************************************************)
(* Properties of the backend's life cycle and of the sessions' memory      *)
(***************************************************************************)
InSonar == call # None /\ call.kind = "mbx_sonar"

Positions(name) == {k \in 1..Len(trace) : trace[k].call = name}

BackendCalls ==
    {"play_frequency", "generate_wav", "generate_analysis_report",
     "generate_frequency_data", "generate_metadata_json"}

\* C17: in one invocation of mbx_sonar the backend is loaded and initialised at most
\* once; every backend call comes after a successful init_audio and before
\* cleanup_audio and does not meet the not-initialised error; and when the backend was
\* loaded, cleanup_audio and the unload have happened exactly once, in that order,
\* when mbx_sonar returns.
C17_BackendLifeCycle ==
    InSonar =>
        /\ Cardinality(Positions("load")) <= 1
        /\ Cardinality(Positions("init_audio")) <= 1
        /\ \A k \in 1..Len(trace) :
              trace[k].call \in BackendCalls =>
                  /\ \E j \in Positions("init_audio") : j < k /\ trace[j].ret = "ok"
                  /\ \A j \in Positions("cleanup_audio") : k < j
                  /\ trace[k].ret # "not_initialized"
        /\ (pc = "sonar_done" /\ call.lib_loaded) =>
              /\ Cardinality(Positions("cleanup_audio")) = 1
              /\ Cardinality(Positions("free_library")) = 1
              /\ \A j \in Positions("cleanup_audio") :
                    \A u \in Positions("free_library") : j < u
              /\ g_initialized = 0
              /\ audio_lib = AudioLibZero

\* a second invocation that played two tones through the backend and has returned
C17_Witness ==
    /\ InSonar
    /\ pc = "sonar_done" /\ call.lib_loaded
    /\ Len(attempted) = 2
    /\ Cardinality(Positions("play_frequency")) = 2
    /\ Positions("generate_wav") # {}
    /\ ret = TRUE

\* the blocks allocated and not yet freed after the calls of h
RECURSIVE Live(_)
Live(h) ==
    IF h = <<>> THEN {}
    ELSE LET before == Live(SubSeq(h, 1, Len(h) - 1))
             last == h[Len(h)]
         IN  IF last.op = "malloc" THEN before \cup {last.block}
             ELSE before \ {last.block}

\* some free in h is handed a block that is not allocated at that point
DoubleFree(h) ==
    \E k \in 1..Len(h) :
        h[k].op = "free" /\ h[k].block \notin Live(SubSeq(h, 1, k - 1))

\* no session is between its entry and its return
SessionOver == pc \notin {"sonar_load", "sonar_output", "sonar_cleanup"}

\* C18: every sample node, window buffer, result and data buffer allocated during an
\* encode or decode session is released exactly once by the time the session returns,
\* whether it succeeded, failed to decode or failed to save: nothing stays allocated
\* after mbx_sonar, mbx_dsonar, process_single_wav_file or an iteration of the batch
\* loops, and no block is ever freed twice.
C18_MemoryReleased ==
    /\ ~DoubleFree(heap)
    /\ SessionOver => Live(heap) = {}

\* a WAV session that allocated the window buffer, detected no frequency and failed
C18_Witness ==
    /\ pc = "called" /\ call.kind = "single_wav"
    /\ call.ran = <<"wav">> /\ call.result = NULL /\ ~call.ret
    /\ heap = <<Malloc(AudioBuffer), Free(AudioBuffer)>>

\* a session that decoded, could not save and still released the result and its data
C18_WitnessSaveFailed ==
    /\ pc = "called" /\ call.kind = "mbx_dsonar"
    /\ call.result # NULL /\ ~call.saved
    /\ \E k \in 1..Len(heap) : heap[k] = Free(DataBlock)
    /\ \E k \in 1..Len(heap) : heap[k] = Free(ResultBlock)

\* an encode session that has returned after freeing the nodes of its list
C18_WitnessSonar ==
    /\ InSonar /\ pc = "sonar_done" /\ ret = TRUE
    /\ Len(heap) = 2 * Len(samples) /\ Len(samples) > 0

\* a decoder on its own: a failed decode leaves nothing allocated, a successful one
\* leaves exactly the result and its data buffer to the caller
C18_DecoderOwnership ==
    (pc \in {"csv", "json", "analysis", "wav"}) =>
        /\ ~DoubleFree(heap)
        /\ Live(heap) = IF result = NULL THEN {}
                        ELSE IF result.reconstructed_data = NULL THEN {ResultBlock}
                        ELSE {ResultBlock, DataBlock}

(***************************************************************************)
(* The command line program: main(argc, argv)                              *)
(*                                                                         *)
(* argv[1] is a file name (is_wav: it contains ".wav"), argv[2] a module   *)
(* name, argv[3] a partition count.  mojibake_open and mojibake_execute    *)
(* belong to the library: opens and executed are what they return.         *)
(***************************************************************************)
ModuleNames == {"hex", "text", "count", "sonar", "dsonar", "unknown"}

\* the library's default count, a positive number
MOJIBAKE_DEFAULT_PARTITION_COUNT == MaxPartitions

\* the for loop of process_wav_files_only at partition i
RECURSIVE process_wav_files_loop(_, _, _, _, _, _)
process_wav_files_loop(i, partition_count, files, io, bins, flag) ==
    IF i >= partition_count THEN [success |-> flag, bins |-> bins]
    ELSE LET Rest(r) ==
                 process_wav_files_loop(i + 1, partition_count, files, io,
                                        [bins EXCEPT ![i] = r.file],
                                        fold_success(flag, r.ret))
         IN  Rest(wav_only_iteration(files[i], bins[i], io[i]))

\* process_wav_files_only(partition_count): the loop, then the combination
process_wav_files_only(partition_count, files, io, bins, opens) ==
    LET End(l) ==
            IF l.success
            THEN combine_partition_files(l.bins, partition_count, NoFile, opens).ok
            ELSE FALSE
    IN  End(process_wav_files_loop(0, partition_count, files, io, bins, TRUE))

\* what the selected module's processing returned
Outcome(ok) == IF ok THEN "succeeded" ELSE "failed"

\* main: the exit code, and the outcome of the selected module's processing ("none" when
\* the program did not get that far)
main(argc, is_wav, module_name, count_arg, opens, executed, single, multi) ==
    IF argc < 2 THEN [exit |-> 1, processed |-> "none"]
    ELSE IF argc >= 4 /\ count_arg <= 0 THEN [exit |-> 1, processed |-> "none"]
    ELSE LET name == IF argc >= 3 THEN module_name ELSE "hex"
         IN  IF name \in {"hex", "text", "count", "sonar"}
             THEN IF ~opens THEN [exit |-> 1, processed |-> "none"]
                  ELSE [exit |-> 0, processed |-> Outcome(executed)]
             ELSE IF name = "dsonar"
             THEN [exit |-> 0, processed |-> Outcome(IF is_wav THEN single ELSE multi)]
             ELSE [exit |-> 1, processed |-> "none"]

\* the module name main works with
selected_name(argc, module_name) == IF argc >= 3 THEN module_name ELSE "hex"

\* the partition count main works with
selected_count(argc, count_arg) ==
    IF argc >= 4 THEN count_arg ELSE MOJIBAKE_DEFAULT_PARTITION_COUNT

\* the artifacts of one partition and the outcome of writing its output, as
\* process_wav_files_only meets them
MainPartitions ==
    [files : {f \in WavOnlyArtifactSets : f.csv = NoFile /\ f.wav # OrchWavFile(20, <<>>)},
     io : {"ok", "short"}]

InitMain ==
    /\ pc = "idle"
    /\ sonar_config = default_config
    /\ dsonar_config = default_dsonar_config
    /\ IdleCodec /\ IdleDecoder /\ IdleOrchestrator
    /\ ret = None

\* one run of the program
Main ==
    /\ pc = "idle"
    /\ \E argc \in 1..4, is_wav \in BOOLEAN, module_name \in ModuleNames,
          count_arg \in -1..MaxPartitions :
          LET name == selected_name(argc, module_name)
              count == selected_count(argc, count_arg)
              reached == argc >= 2 /\ count > 0
              library == reached /\ name \in {"hex", "text", "count", "sonar"}
              one == reached /\ name = "dsonar" /\ is_wav
              many == reached /\ name = "dsonar" /\ ~is_wav
          IN  \E opens \in IF library \/ many THEN BOOLEAN ELSE {TRUE},
                 executed \in IF library THEN BOOLEAN ELSE {TRUE},
                 wav \in IF one THEN OrchWavFiles ELSE {NoFile},
                 io \in IF one THEN IoOutcomes ELSE {"ok"},
                 parts \in IF many THEN [0..(MaxPartitions - 1) -> MainPartitions]
                           ELSE {<<>>} :
                 /\ call' = [kind |-> "main", argc |-> argc, is_wav |-> is_wav,
                             module_name |-> module_name, count_arg |-> count_arg,
                             opens |-> opens, executed |-> executed, wav |-> wav,
                             io |-> io, parts |-> parts]
                 /\ ret' = main(argc, is_wav, module_name, count_arg, opens, executed,
                                process_single_wav_file(wav, NoFile, io).ret,
                                IF many
                                THEN process_wav_files_only(
                                         count,
                                         [i \in DOMAIN parts |-> parts[i].files],
                                         [i \in DOMAIN parts |-> parts[i].io],
                                         [i \in DOMAIN parts |-> NoFile], opens)
                                ELSE FALSE)
    /\ pc' = "exited"
    /\ UNCHANGED <<engine, heap>>
    /\ UNCHANGED <<sonar_config, dsonar_config, audio_sample, reverse_sample, artifact,
                   samples, result, target, disk, idx, success, attempted>>

NextMain == Main

SpecMain == InitMain /\ [][NextMain]_vars

(***************************************************************************)
(* The writers of the artifacts                                            *)
(*                                                                         *)
(* generate_wav_file (mbx_sonar.c) and the backend's generate_wav write    *)
(* the same 44 bytes before the samples; a written container is [header,   *)
(* pcm_count]: the bytes in front of the samples and the number of 16-bit  *)
(* samples after them.  The three text writers of the backend produce the  *)
(* lines the decoders read, with the fields as fprintf prints them.        *)
(***************************************************************************)
InitAudioRate == 44100
FmtTag == <<102, 109, 116, 32>>
DataTag == <<100, 97, 116, 97>>

\* (int)(current->duration * sample_rate), the duration in thousandths of a second
tone_samples(sample, sample_rate) == Trunc(sample.duration * sample_rate, 1000)

total_samples_of(head, sample_rate) ==
    SumSeq([i \in 1..Len(head) |-> tone_samples(head[i], sample_rate)])

\* a header that leaves out the length of the format chunk
wav_header_without_fmt_size(sample_rate, total_samples) ==
    LET data_size == total_samples * 2
        file_size == data_size + 36
        channels == 1
    IN  RiffTag \o LittleEndian(file_size, 4) \o WaveTag
            \o FmtTag \o LittleEndian(1, 2)
            \o LittleEndian(channels, 2) \o LittleEndian(sample_rate, 4)
            \o LittleEndian(sample_rate * channels * 2, 4)
            \o LittleEndian(channels * 2, 2) \o LittleEndian(16, 2)
            \o DataTag \o LittleEndian(data_size, 4)

\* the fwrite calls of the two writers up to the data chunk's size
wav_header(sample_rate, total_samples) ==
    LET data_size == total_samples * 2
        file_size == data_size + 36
        channels == 1
    IN  RiffTag \o LittleEndian(file_size, 4) \o WaveTag
            \o FmtTag \o LittleEndian(16, 4) \o LittleEndian(1, 2)
            \o LittleEndian(channels, 2) \o LittleEndian(sample_rate, 4)
            \o LittleEndian(sample_rate * channels * 2, 4)
            \o LittleEndian(channels * 2, 2) \o LittleEndian(16, 2)
            \o DataTag \o LittleEndian(data_size, 4)

WrittenWav(header, pcm_count) ==
    [exists |-> TRUE, header |-> header, pcm_count |-> pcm_count]

\* generate_wav_file(head, filename, config) once fopen succeeded
generate_wav_file(head, config) ==
    LET total_samples == total_samples_of(head, config.sample_rate)
    IN  WrittenWav(wav_header(config.sample_rate, total_samples), total_samples)

\* the file generate_wav(filename, samples) writes when it returns 0
generate_wav_output(g_sample_rate, head) ==
    LET total_samples == total_samples_of(head, g_sample_rate)
    IN  WrittenWav(wav_header(g_sample_rate, total_samples), total_samples)

\* what "%.3f" prints for an amplitude, in thousandths
Round3(a) == (a.n * 2000 + a.d) \div (2 * a.d)

RECURSIVE Digits(_)
Digits(n) == IF n < 10 THEN 1 ELSE 1 + Digits(n \div 10)

\* the number of characters "%.2f" prints for the frequency
FrequencyWidth(f) == Digits(Round2(f).n \div 100) + 3

\* generate_frequency_data: the header line, then one row per sample
generate_frequency_data(head) ==
    TextFile(<<CsvHeader>> \o
             [i \in 1..Len(head) |->
                 CsvRow(head[i].source_byte, Round2(head[i].frequency),
                        Round3(head[i].amplitude))])

\* the five lines generate_metadata_json prints for a sample and the brace that closes
\* it: "    },\n" before another sample, "    }\n" after the last one
json_sample_lines(sample, last) ==
    <<JsonOtherLine(6),
      JsonByteLine(sample.source_byte),
      [kind |-> "frequency", val |-> Round2(sample.frequency), indent |-> 6,
       len |-> 21 + FrequencyWidth(sample.frequency)],
      JsonOtherLine(26),
      JsonOtherLine(24),
      JsonOtherLine(IF last THEN 6 ELSE 7)>>

\* generate_metadata_json: ten lines of preamble, the samples, "  ]\n" and "}\n"
generate_metadata_json(head) ==
    TextFile([k \in 1..10 |-> JsonOtherLine(<<2, 20, 34, 35, 5, 20, 26, 26, 5, 15>>[k])]
             \o Concat([i \in 1..Len(head) |-> json_sample_lines(head[i], i = Len(head))])
             \o <<JsonOtherLine(4), JsonOtherLine(2)>>)

ReportText(n) == [kind |-> "other", val |-> Zero, byte_val |-> 0, len |-> n]

\* "0x%02X\t%.2f\t\t%.3f\t%.3f\n"
report_sample_line(sample) ==
    ReportData(sample.source_byte, Round2(sample.frequency),
               19 + FrequencyWidth(sample.frequency))

\* generate_analysis_report for a list that is not empty: the title, the statistics (len
\* counts the constant characters of their formats), the marker, the two lines of column
\* titles, one line per sample
generate_analysis_report(head) ==
    TextFile([k \in 1..13 |->
                 ReportText(<<28, 28, 1, 33, 27, 1, 19, 18, 25, 26, 22, 23, 1>>[k])]
             \o <<ReportMarker, ReportText(30), ReportText(30)>>
             \o [i \in 1..Len(head) |-> report_sample_line(head[i])])

(***************************************************************************)
(* Writing the artifacts of a byte sequence and reading them back          *)
(***************************************************************************)
MaxArtifactBytes == 2

ArtifactByteChoices == {0, 1, 65, 255}

\* short sequences over a few bytes, and every byte on its own
ArtifactPartitions ==
    SeqsUpTo(ArtifactByteChoices, MaxArtifactBytes) \cup {<<b>> : b \in Bytes}

\* the default band and a band one hertz wide
ArtifactBands ==
    {default_dsonar_config, [base_frequency |-> 0, frequency_range |-> 1]}

ArtifactRates == {8000, 44100}

\* the encoder and the decoder are given the same band
InitArtifacts ==
    /\ pc = "idle"
    /\ \E band \in ArtifactBands, rate \in ArtifactRates :
          /\ sonar_config = [default_config EXCEPT !.sample_rate = rate,
                                                   !.base_frequency = band.base_frequency,
                                                   !.frequency_range = band.frequency_range]
          /\ dsonar_config = band
    /\ IdleCodec /\ IdleDecoder /\ IdleOrchestrator
    /\ ret = None

\* mbx_sonar up to the output: the sample list of the partition, the backend loaded
ArtifactList ==
    /\ pc = "idle"
    /\ \E partition \in ArtifactPartitions, library \in Libraries :
          LET l == load_audio_library(library, 0)
          IN  /\ target' = [block |-> Buffer(partition), partition_count |-> 1,
                            partition_size |-> Len(partition)]
              /\ samples' = audio_list(partition, sonar_config)
              /\ audio_lib' = l.audio_lib
              /\ g_initialized' = l.g_initialized
              /\ trace' = l.events
    /\ pc' = "listed"
    /\ UNCHANGED <<sonar_config, dsonar_config, audio_sample, reverse_sample, artifact,
                   result, disk, idx, success, call, attempted, ret, heap>>

\* generate_wav_file(audio_head, filename, config)
WriteWavFile ==
    /\ pc = "listed"
    /\ \E opens \in BOOLEAN :
          artifact' = IF opens THEN generate_wav_file(samples, sonar_config) ELSE NoFile
    /\ call' = [writer |-> "generate_wav_file", sample_rate |-> sonar_config.sample_rate,
                header |-> None]
    /\ pc' = "wav_written"
    /\ UNCHANGED <<engine, heap>>
    /\ UNCHANGED <<sonar_config, dsonar_config, audio_sample, reverse_sample, samples,
                   result, target, disk, idx, success, attempted, ret>>

\* generate_wav(filename, samples) of the backend
WriteWav ==
    /\ pc = "listed"
    /\ LET r == generate_wav(g_initialized, samples)
       IN  /\ artifact' = IF r = "ok" THEN generate_wav_output(InitAudioRate, samples)
                          ELSE NoFile
           /\ trace' = Append(trace, Event("generate_wav", r))
    /\ call' = [writer |-> "generate_wav", sample_rate |-> InitAudioRate, header |-> None]
    /\ pc' = "wav_written"
    /\ UNCHANGED <<sonar_config, dsonar_config, audio_sample, reverse_sample, samples,
                   result, target, disk, idx, success, attempted, ret,
                   audio_lib, g_initialized, heap>>

\* read_wav_header(file, &sample_rate, &channels, &bits_per_sample) on the written file
ReadWavHeader ==
    /\ pc = "wav_written"
    /\ artifact # NoFile
    /\ call' = [call EXCEPT !.header = read_wav_header(artifact)]
    /\ pc' = "wav_read"
    /\ UNCHANGED <<engine, heap>>
    /\ UNCHANGED <<sonar_config, dsonar_config, audio_sample, reverse_sample, artifact,
                   samples, result, target, disk, idx, success, attempted, ret>>

TextWriters ==
    {"generate_frequency_data", "generate_metadata_json", "generate_analysis_report"}

text_artifact(writer, head) ==
    CASE writer = "generate_frequency_data" -> generate_frequency_data(head)
      [] writer = "generate_metadata_json" -> generate_metadata_json(head)
      [] writer = "generate_analysis_report" -> generate_analysis_report(head)

\* one of the three text writers of the backend
WriteText ==
    /\ pc = "listed"
    /\ \E writer \in TextWriters :
          LET r == generate_file(samples)
          IN  /\ artifact' = IF r = "ok" THEN text_artifact(writer, samples) ELSE NoFile
              /\ trace' = Append(trace, Event(writer, r))
              /\ call' = [writer |-> writer]
    /\ pc' = "text_written"
    /\ UNCHANGED <<sonar_config, dsonar_config, audio_sample, reverse_sample, samples,
                   result, target, disk, idx, success, attempted, ret,
                   audio_lib, g_initialized, heap>>

\* the decoder of the written artifact, with the decoder's parameters
DecodeText ==
    /\ pc = "text_written"
    /\ result' =
          CASE call.writer = "generate_frequency_data" ->
                   reconstruct_from_csv(artifact, dsonar_config)
            [] call.writer = "generate_metadata_json" ->
                   reconstruct_from_json(artifact, dsonar_config)
            [] call.writer = "generate_analysis_report" ->
                   reconstruct_from_analysis(artifact, dsonar_config)
    /\ pc' = "text_decoded"
    /\ UNCHANGED <<engine, heap>>
    /\ UNCHANGED <<sonar_config, dsonar_config, audio_sample, reverse_sample, artifact,
                   samples, target, disk, idx, success, call, attempted, ret>>

NextArtifacts ==
    \/ ArtifactList
    \/ WriteWavFile
    \/ WriteWav
    \/ ReadWavHeader
    \/ WriteText
    \/ DecodeText

SpecArtifacts == InitArtifacts /\ [][NextArtifacts]_vars

MainName == selected_name(call.argc, call.module_name)

InvalidArguments ==
    \/ call.argc < 2
    \/ MainName = "unknown"
    \/ call.argc >= 4 /\ call.count_arg <= 0

\* C22: the program exits with 0 only when the selected module's processing succeeded,
\* and with 1 on invalid arguments (no file name, unknown module, non-positive partition
\* count), when the input file cannot be opened, and when the dsonar module's input is
\* missing or its reconstruction fails.
C22_ExitCode ==
    pc = "exited" =>
        /\ ret.exit = 0 => ret.processed = "succeeded"
        /\ InvalidArguments => ret.exit = 1
        /\ (MainName \in {"hex", "text", "count", "sonar"} /\ ~call.opens) => ret.exit = 1
        /\ (MainName = "dsonar" /\ ret.processed = "failed") => ret.exit = 1

\* the exits that are as stated: 1 on invalid arguments and when the file cannot be opened
C22_InvalidArguments ==
    pc = "exited" =>
        /\ InvalidArguments => ret.exit = 1
        /\ (~InvalidArguments /\ MainName # "dsonar" /\ ~call.opens) => ret.exit = 1
        /\ ret.exit \in {0, 1}

\* C23: the file a container writer leaves starts with 44 bytes that declare linear PCM,
\* one channel, 16 bits, the writer's sample rate, a byte rate of twice that rate, a block
\* alignment of 2, a data size of twice the sum over the tones of floor(duration *
\* sample_rate) and a total size of the data size plus 36; read_wav_header on that file
\* succeeds and returns the writer's sample rate, one channel and 16 bits
C23_Header ==
    (pc \in {"wav_written", "wav_read"} /\ artifact # NoFile) =>
        LET header == artifact.header
            rate == call.sample_rate
            data_size == 2 * SumSeq([i \in 1..Len(samples) |->
                                        (samples[i].duration * rate) \div 1000])
        IN  /\ Len(header) = 44
            /\ SubSeq(header, 1, 4) = RiffTag
            /\ IntAt(header, 4) = data_size + 36
            /\ SubSeq(header, 9, 12) = WaveTag
            /\ ShortAt(header, 20) = 1
            /\ ShortAt(header, 22) = 1
            /\ IntAt(header, 24) = rate
            /\ IntAt(header, 28) = 2 * rate
            /\ ShortAt(header, 32) = 2
            /\ ShortAt(header, 34) = 16
            /\ IntAt(header, 40) = data_size
            /\ 2 * artifact.pcm_count = data_size
            /\ pc = "wav_read" =>
                  call.header = [ok |-> TRUE, channels |-> 1, sample_rate |-> rate,
                                 bits_per_sample |-> 16]

\* the backend wrote the container of two tones and its header was read back
C23_Witness ==
    /\ pc = "wav_read"
    /\ call.writer = "generate_wav"
    /\ Len(samples) = 2
    /\ call.header.ok
    /\ call.header.sample_rate = InitAudioRate

\* generate_wav_file wrote the container at 8000 Hz, and one for an empty list
C23_WitnessBuiltin ==
    /\ pc = "wav_read"
    /\ call.writer = "generate_wav_file"
    /\ call.header.ok
    /\ call.header.sample_rate = 8000
    /\ Len(samples) = 0

\* the bytes the encoder was given
ArtifactBytes == target.block.bytes

\* the result holds exactly the encoded bytes, in their order, one sample per byte
RoundTrip ==
    /\ result # NULL
    /\ result.data_length = Len(ArtifactBytes)
    /\ result.total_samples = Len(ArtifactBytes)
    /\ result.reconstructed_data = Buffer(ArtifactBytes)

\* C24: with the same band on both sides, each text artifact the backend writes for a
\* byte sequence (frequencies printed with two decimals) decodes to exactly that sequence,
\* one sample per byte
C24_TextRoundTrip ==
    (pc = "text_decoded" /\ artifact # NoFile) => RoundTrip

\* C24 for the frequency table, whatever the band, and for the default band
C24_TableOrDefaultBand ==
    (/\ pc = "text_decoded"
     /\ artifact # NoFile
     /\ \/ call.writer = "generate_frequency_data"
        \/ dsonar_config = default_dsonar_config) => RoundTrip

(***************************************************************************)
(* Properties of the report decoder, the acoustic decoder and the results  *)
(***************************************************************************)
ReportLines == artifact.lines

\* the first line of the report that can yield a sample: the third after the first line
\* that holds the marker
ReportDataStart ==
    LET markers == {k \in 1..Len(ReportLines) : ReportLines[k].kind = "marker"}
    IN  IF markers = {} THEN Len(ReportLines) + 1
        ELSE (CHOOSE m \in markers : \A k \in markers : m <= k) + 3

\* the line converts under the data format and is longer than ten characters
ReportWellFormed(line) == line.kind = "data" /\ line.len > 10

\* the line follows a marker line by one or two lines
AfterMarker(k) ==
    \E m \in {k - 1, k - 2} : m >= 1 /\ ReportLines[m].kind = "marker"

\* C25: the report decoder takes samples only from lines after the marker and its two
\* header lines; every such line that parses gives exactly one sample, whose byte is the
\* inverse-mapped frequency of the line (not its hex field) and whose confidence is 0.85
C25_ReportSamples ==
    (pc = "analysis" /\ artifact # NoFile) =>
        /\ Len(samples) = Len(call.lines)
        /\ \A i \in 1..Len(samples) :
              LET k == call.lines[i]
              IN  /\ k >= ReportDataStart
                  /\ ReportWellFormed(ReportLines[k])
                  /\ i > 1 => call.lines[i - 1] < k
                  /\ samples[i].source_frequency = ReportLines[k].val
                  /\ samples[i].reconstructed_byte =
                         frequency_to_byte(ReportLines[k].val, dsonar_config)
                  /\ samples[i].confidence_score = 850
        /\ \A k \in ReportDataStart..Len(ReportLines) :
              (ReportWellFormed(ReportLines[k]) /\ ~AfterMarker(k)) =>
                  \E i \in 1..Len(samples) : call.lines[i] = k
        /\ (result # NULL) <=> (Len(samples) > 0)
        /\ result # NULL =>
              result.reconstructed_data =
                  Buffer([i \in 1..Len(samples) |->
                             frequency_to_byte(ReportLines[call.lines[i]].val, dsonar_config)])

\* a data line before the marker, a data line among the two skipped ones, and one sample
\* from the fifth line, whose hex field (0x48) differs from the decoded byte (0x41)
C25_Witness ==
    /\ pc = "analysis"
    /\ artifact # NoFile
    /\ Len(ReportLines) = 5
    /\ ReportWellFormed(ReportLines[1])
    /\ ReportLines[2].kind = "marker"
    /\ ReportWellFormed(ReportLines[3])
    /\ ReportLines[5].byte_val = 72
    /\ call.lines = <<5>>
    /\ samples[1].reconstructed_byte = 65
    /\ samples[1].confidence_score = 850

\* C26: past the marker and its two header lines the report decoder stops at the first
\* malformed line: no sample comes from a line behind a malformed one
C26_StopsAtMalformed ==
    (pc = "analysis" /\ artifact # NoFile) =>
        \A i \in 1..Len(call.lines) :
            \A j \in ReportDataStart..(call.lines[i] - 1) : ReportWellFormed(ReportLines[j])

\* C26 up to the first malformed line: every line from the start of the data to the
\* line before the first malformed one gives a sample
C26_UpToMalformed ==
    (pc = "analysis" /\ artifact # NoFile) =>
        \A k \in ReportDataStart..Len(ReportLines) :
            (\A j \in ReportDataStart..k : ReportWellFormed(ReportLines[j])) =>
                \E i \in 1..Len(call.lines) : call.lines[i] = k

\* the whole windows of the container's samples, in the order they are read
WindowCount == Len(artifact.pcm) \div wav_chunk_size(dsonar_config)

WindowAt(j) ==
    SubSeq(artifact.pcm, (j - 1) * wav_chunk_size(dsonar_config) + 1,
           j * wav_chunk_size(dsonar_config))

SignChanges(w) ==
    Cardinality({i \in 2..Len(w) : (w[i - 1] >= 0) # (w[i] >= 0)})

\* crossings / 2 divided by the duration of the window
WindowEstimate(j) ==
    Q(SignChanges(WindowAt(j)) * call.header.sample_rate, 2 * Len(WindowAt(j)))

WindowAccepted(j) ==
    /\ Len(WindowAt(j)) >= 10
    /\ QLe(QInt(200), WindowEstimate(j))
    /\ QLe(WindowEstimate(j), QInt(3000))

AcceptedWindows == {j \in 1..WindowCount : WindowAccepted(j)}

\* the container was opened and its header accepted
WavRead == pc = "wav" /\ artifact # NoFile /\ call.header.ok

\* C27: the acoustic decoder takes one sample from each window whose zero-crossing
\* estimate lies in 200..3000 Hz and none from any other window nor from a window of
\* fewer than 10 samples; each sample has confidence 0.7; the result counts the accepted
\* windows in total_samples and successful_samples with average_confidence 0.7; with no
\* accepted window the decoder fails
C27_AcceptedWindows ==
    WavRead =>
        /\ Len(samples) = Cardinality(AcceptedWindows)
        /\ \A i \in 1..Len(samples) :
              \E j \in AcceptedWindows :
                  /\ Cardinality({a \in AcceptedWindows : a < j}) = i - 1
                  /\ QEq(samples[i].source_frequency, WindowEstimate(j))
                  /\ samples[i].confidence_score = 700
        /\ (result = NULL) <=> (AcceptedWindows = {})
        /\ result # NULL =>
              /\ result.total_samples = Cardinality(AcceptedWindows)
              /\ result.successful_samples = Cardinality(AcceptedWindows)
              /\ QEq(result.average_confidence, Q(700, 1))

\* two windows were read and only the second was accepted
C27_Witness ==
    /\ WavRead
    /\ WindowCount = 2
    /\ AcceptedWindows = {2}
    /\ SignChanges(WindowAt(1)) > 0
    /\ result # NULL
    /\ result.total_samples = 1

\* windows of five samples with a crossing: none is usable and the decoder fails
C27_WitnessShort ==
    /\ WavRead
    /\ wav_chunk_size(dsonar_config) = 5
    /\ WindowCount = 2
    /\ SignChanges(WindowAt(1)) = 1
    /\ result = NULL

(***************************************************************************)
(* The sample list as the nodes the code links                             *)
(*                                                                         *)
(* A list is [head, nodes]: nodes[p] is the node at address p with its     *)
(* sample and its next pointer, addresses being given out in the order of  *)
(* the malloc calls; NullPtr is NULL.  The decoders above hold the list as *)
(* the sequence of its samples; here that sequence is kept beside the      *)
(* nodes, in the order of the add_reverse_sample calls.                    *)
(***************************************************************************)
NullPtr == 0
MaxListLength == 3

\* reverse_sample_node_t* samples = NULL
EmptyList == [head |-> NullPtr, nodes |-> <<>>]

\* the node create_reverse_sample allocates: next = NULL
new_reverse_sample(list, sample) ==
    [list EXCEPT !.nodes = Append(@, [sample |-> sample, next |-> NullPtr])]

\* while (current->next) current = current->next
RECURSIVE last_node(_, _)
last_node(nodes, current) ==
    IF nodes[current].next = NullPtr THEN current
    ELSE last_node(nodes, nodes[current].next)

\* an insertion in front of the list
add_reverse_sample_node_in_front(list, sample) ==
    IF sample = NullPtr THEN list
    ELSE [list EXCEPT !.head = sample, !.nodes[sample].next = list.head]

\* add_reverse_sample(&head, sample) on the nodes
add_reverse_sample_node(list, sample) ==
    IF sample = NullPtr THEN list
    ELSE IF list.head = NullPtr THEN [list EXCEPT !.head = sample]
    ELSE [list EXCEPT !.nodes[last_node(list.nodes, list.head)].next = sample]

\* the samples met from current on by following next
RECURSIVE walk(_, _)
walk(nodes, current) ==
    IF current = NullPtr THEN <<>>
    ELSE <<nodes[current].sample>> \o walk(nodes, nodes[current].next)

\* samples_to_bytes(head, &length) on the nodes: count, then copy
samples_to_bytes_nodes(list) ==
    IF list.head = NullPtr THEN [bytes |-> NULL, length |-> "unset"]
    ELSE LET count == Len(walk(list.nodes, list.head))
             met == walk(list.nodes, list.head)
         IN  [bytes  |-> Buffer([i \in 1..count |-> met[i].reconstructed_byte]),
              length |-> count]

ListFrequencies(config) == {map_byte_to_frequency(b, config) : b \in {0, 65, 255}}

InitSamples ==
    /\ pc = "idle"
    /\ sonar_config = None
    /\ dsonar_config \in DecoderConfigs
    /\ IdleCodec /\ IdleDecoder
    /\ target = None
    /\ disk = None
    /\ idx = 0
    /\ success = TRUE
    /\ call = EmptyList
    /\ attempted = <<>>
    /\ ret = None

\* create_reverse_sample(frequency, sample_index, config) as the decoders call it;
\* idx is the address of the new node
CreateReverseSample ==
    /\ pc \in {"idle", "list"}
    /\ Len(samples) < MaxListLength
    /\ \E f \in ListFrequencies(dsonar_config) :
          /\ reverse_sample' = create_reverse_sample(f, Len(samples), dsonar_config)
          /\ call' = new_reverse_sample(call, reverse_sample')
    /\ idx' = Len(call.nodes) + 1
    /\ pc' = "created"
    /\ UNCHANGED <<engine, heap>>
    /\ UNCHANGED <<sonar_config, dsonar_config, audio_sample, artifact, samples, result,
                   target, disk, success, attempted, ret>>

\* add_reverse_sample(&samples, sample); sample_index++
AddReverseSample ==
    /\ pc = "created"
    /\ call' = add_reverse_sample_node(call, idx)
    /\ samples' = add_reverse_sample(samples, reverse_sample)
    /\ pc' = "list"
    /\ UNCHANGED <<engine, heap>>
    /\ UNCHANGED <<sonar_config, dsonar_config, audio_sample, reverse_sample, artifact,
                   result, target, disk, idx, success, attempted, ret>>

\* samples_to_bytes(samples, &length)
SamplesToBytes ==
    /\ pc \in {"idle", "list"}
    /\ result' = samples_to_bytes_nodes(call)
    /\ pc' = "bytes"
    /\ UNCHANGED <<engine, heap>>
    /\ UNCHANGED <<sonar_config, dsonar_config, audio_sample, reverse_sample, artifact,
                   samples, target, disk, idx, success, call, attempted, ret>>

NextSamples ==
    \/ CreateReverseSample
    \/ AddReverseSample
    \/ SamplesToBytes
    \/ ReconstructFromJson
    \/ ReconstructFromAnalysis
    \/ ReconstructFromWav

SpecSamples == InitSamples /\ [][NextSamples]_vars

InList == pc \in {"created", "list", "bytes"}

InListDecoder == pc \in {"json", "analysis", "wav"}

\* C28: the list holds the samples in the order of the add_reverse_sample calls, an append
\* leaving the earlier ones as they were; samples_to_bytes returns as many bytes as samples
\* were appended, the i-th being the reconstructed_byte of the i-th sample; in the decoders
\* the i-th sample appended has sample_index i, counted from 0 without gaps
C28_AppendOnly ==
    /\ InList => walk(call.nodes, call.head) = samples
    /\ (pc = "bytes" /\ Len(samples) >= 1) =>
          /\ result.length = Len(samples)
          /\ result.bytes = Buffer([i \in 1..Len(samples) |-> samples[i].reconstructed_byte])
          /\ result = samples_to_bytes(samples)
    /\ (InList \/ InListDecoder) =>
          \A i \in 1..Len(samples) : samples[i].sample_index = i - 1

\* three samples were appended, with different bytes, and the bytes were taken
C28_Witness ==
    /\ pc = "bytes"
    /\ Len(samples) = 3
    /\ samples[1].reconstructed_byte # samples[2].reconstructed_byte
    /\ samples[2].reconstructed_byte # samples[3].reconstructed_byte
    /\ result.length = 3

\* a decoder appended two samples
C28_WitnessDecoder ==
    /\ InListDecoder
    /\ Len(samples) = 2
    /\ samples[2].sample_index = 1

\* the default parameters met a container of 44100 Hz
DefaultAt44100 ==
    /\ WavRead
    /\ dsonar_config = default_dsonar_config
    /\ call.header.sample_rate = 44100

C29_WitnessRejected ==
    /\ DefaultAt44100
    /\ WindowCount = 2
    /\ SignChanges(WindowAt(1)) = 2
    /\ SignChanges(WindowAt(2)) = 10
    /\ result = NULL

\* a decoder returned a result
DecoderResult == pc \in {"csv", "csv_again", "json", "analysis", "wav"} /\ result # NULL

\* C30: every result of the four decoders has total_samples >= 1, 0 <= data_length <=
\* total_samples and 0 <= successful_samples <= total_samples
C30_ResultCounts ==
    DecoderResult =>
        /\ result.total_samples >= 1
        /\ 0 <= result.data_length
        /\ result.data_length <= result.total_samples
        /\ 0 <= result.successful_samples
        /\ result.successful_samples <= result.total_samples

\* a table of three lines with one malformed row: fewer bytes than samples counted
C30_Witness ==
    /\ pc = "csv"
    /\ result # NULL
    /\ result.total_samples = 3
    /\ result.data_length = 2
    /\ result.successful_samples = 2

\* a table whose rows are all malformed: a result without a byte
C30_WitnessNoByte ==
    /\ pc = "csv"
    /\ result # NULL
    /\ result.total_samples = 2
    /\ result.data_length = 0

\* a document whose samples all have confidence 0.8 or 1.0, and a report: every sample of
\* a list decoder counts as successful
C30_WitnessLists ==
    /\ pc \in {"json", "analysis"}
    /\ result # NULL
    /\ result.total_samples = 2
    /\ result.successful_samples = 2

====
